---- MODULE Spec2Model ----
(***************************************************************************)
(* Model of the reminder service of simple-aitodo: the trigger-time        *)
(* calculator (app/utils/date_calculator.py), the task scheduler           *)
(* (app/services/task_scheduler.py), the timer callback                    *)
(* (app/services/task_executor.py) and the task endpoints (app/main.py).   *)
(*                                                                         *)
(* Time is a natural number of ticks (one tick = one second, the finest    *)
(* cron field).  A minute, an hour and a day are scaled down               *)
(* (SecondsPerMinute, MinutesPerHour, HoursPerDay), a year is DaysPerYear  *)
(* days; the week keeps its seven days.  Tick 0 is a Monday 00:00:00,      *)
(* the first day of year 0.                                                *)
(***************************************************************************)
EXTENDS Integers, Sequences, FiniteSets, TLC

VARIABLES
    now,          \* datetime.datetime.now(), in ticks
    holiday_db,   \* the holiday_dates table (the calendar oracle's data)
    calc_in,      \* the task_info handed to the calculator
    calc_out,     \* what the calculator call produced
    store,        \* the reminder_tasks table: task id -> row
    jobs,         \* the scheduler's job store: the live timers, by run_date
    running,      \* task id -> the execute_task_by_id coroutines in progress
    requests,     \* the number of task requests (POST, PUT, DELETE) served
    scheduler,    \* the AsyncIOScheduler: running or not, its maintenance job
    event,        \* what the last step did
    message_buffers,  \* Application.message_buffers: contact key -> messages
    user_timers,  \* Application.user_timers: contact key -> its batch timer
    timers,       \* the threading.Timer objects made so far, by message
    threads,      \* the batch processing threads, by the timer that made them
    batches,      \* messages_to_process of each processing thread
    received,     \* the number of callbacks the WeChat client has made
    stopping      \* Application.stop(): where it is, the keys it has left

calc_vars == <<calc_in, calc_out>>
sched_vars == <<store, jobs, running, requests, scheduler, event>>
batch_vars ==
    <<message_buffers, user_timers, timers, threads, batches, received, stopping>>
vars ==
    <<now, holiday_db, calc_in, calc_out, store, jobs, running, requests, scheduler, event,
      message_buffers, user_timers, timers, threads, batches, received, stopping>>

-----------------------------------------------------------------------------
(* Scales and bounds *)

SecondsPerMinute == 2
MinutesPerHour == 2
HoursPerDay == 2
DaysPerWeek == 7
DaysPerYear == 5
MaxAttempts == 7      \* scaled max_attempts (366 * 2 in the source)
MaxNow == 11          \* the clock runs over 0..MaxNow
MaxStrLen == 3        \* longest countdown string
MaxDurationLen == 4   \* longest countdown string given to the parser alone
LunarBig == 3         \* days of a long lunar month; a short one has one less
LunarTableEnd == 20   \* first day past the range lunardate can convert
NumYears == 2         \* the provider has data for at most the years 0..NumYears-1
HoleDay == 2          \* a day the provider may leave out of a year it has
DatetimeMax == 40     \* last representable instant (datetime.max)

TicksPerMinute == SecondsPerMinute
TicksPerHour == MinutesPerHour * TicksPerMinute
TicksPerDay == HoursPerDay * TicksPerHour
Noon == TicksPerDay \div 2

NoTime == -1          \* None, for an Optional[datetime]

-----------------------------------------------------------------------------
(* Calendar arithmetic: datetime fields of an instant *)

DayOf(t) == t \div TicksPerDay
SlotOf(t) == t % TicksPerDay
isoweekday(t) == (DayOf(t) % DaysPerWeek) + 1
YearOfDay(d) == d \div DaysPerYear
YearOf(t) == YearOfDay(DayOf(t))

Min(S) == CHOOSE x \in S : \A y \in S : x <= y

-----------------------------------------------------------------------------
(* models.TaskStatusEnum *)

TaskStatusEnum == {"PENDING", "PENDING_CALCULATION", "RUNNING", "COMPLETED", "FAILED"}

-----------------------------------------------------------------------------
(* models.HolidayDateDB: a row is [date, year, week_day, day_type];         *)
(* day_type 0 workday, 1 holiday, 2 legal holiday, NoType = NULL.           *)

NoType == -1

is_workday(row) == IF row.day_type = NoType THEN FALSE ELSE row.day_type = 0

is_holiday(row) ==
    IF row.day_type = NoType THEN FALSE ELSE row.day_type = 1 \/ row.day_type = 2

is_legal_holiday(row) == IF row.day_type = NoType THEN FALSE ELSE row.day_type = 2

is_weekend(row) ==
    IF row.day_type = NoType THEN FALSE
    ELSE row.week_day \in {6, 7} /\ row.day_type = 1

(* What the calendar provider says of a day, in one of two styles:          *)
(* "plain": Monday..Friday work, Saturday and Sunday rest;                  *)
(* "shift": Monday is a legal holiday, Saturday a make-up workday, and the  *)
(* provider gives no type for Wednesday.                                    *)
ProviderDayType(style, d) ==
    LET wd == (d % DaysPerWeek) + 1
    IN  IF style = "plain" THEN (IF wd \in {6, 7} THEN 1 ELSE 0)
        ELSE CASE wd = 1 -> 2
               [] wd = 3 -> NoType
               [] wd = 6 -> 0
               [] wd = 7 -> 1
               [] OTHER -> 0

HolidayRow(style, d) ==
    [date |-> d, year |-> YearOfDay(d), week_day |-> (d % DaysPerWeek) + 1,
     day_type |-> ProviderDayType(style, d)]

(* crud.get_holiday_dates_for_year: the rows of a year, none when absent *)
get_holiday_dates_for_year(db, year) == {row \in db : row.year = year}

-----------------------------------------------------------------------------
(* croniter, as date_calculator uses it.  An expression is                 *)
(* [ok, slots, dows]: ok = it parses; slots = the times of day its          *)
(* second/minute/hour fields allow; dows = the weekdays its date fields     *)
(* allow (empty for a date that never comes, such as "0 0 30 2 *").         *)

CronMatches(expr, t) == SlotOf(t) \in expr.slots /\ isoweekday(t) \in expr.dows

(* croniter(expr, base): ValueError for an expression that does not parse *)
croniter_accepts_anything(expr) == FALSE

croniter_raises(expr) == ~expr.ok

(* iter.get_next raises when no date satisfies the fields *)
get_next_raises(expr) == expr.slots = {} \/ expr.dows = {}

get_next_inclusive(expr, cur) ==
    IF CronMatches(expr, cur) THEN cur
    ELSE Min({u \in (cur + 1)..(cur + DaysPerWeek * TicksPerDay) : CronMatches(expr, u)})

(* iter.get_next: the first matching instant strictly after cur *)
get_next(expr, cur) ==
    LET laterToday == {s \in expr.slots : s > SlotOf(cur)}
    IN  IF isoweekday(cur) \in expr.dows /\ laterToday # {}
        THEN DayOf(cur) * TicksPerDay + Min(laterToday)
        ELSE LET d == Min({x \in (DayOf(cur) + 1)..(DayOf(cur) + DaysPerWeek) :
                              ((x % DaysPerWeek) + 1) \in expr.dows})
             IN  d * TicksPerDay + Min(expr.slots)

-----------------------------------------------------------------------------
(* lunardate.LunarDate.fromSolarDate: lunar months alternate long and      *)
(* short, LunarMonths to the lunar year; a day past the table raises        *)
(* ValueError.                                                              *)

LunarMonths == 2
LunarYearLen == LunarBig + (LunarBig - 1)

fromSolarDate_raises(d) == d >= LunarTableEnd

fromSolarDate(d) ==
    LET k == d % LunarYearLen
    IN  IF k < LunarBig THEN [month |-> 1, day |-> k + 1]
        ELSE [month |-> 2, day |-> k - LunarBig + 1]

-----------------------------------------------------------------------------
(* date_calculator.parse_countdown_duration *)

Digits == {"0", "1", "2"}
DigitVal(c) == IF c = "0" THEN 0 ELSE IF c = "1" THEN 1 ELSE 2

lower(c) == IF c = "H" THEN "h" ELSE c

RECURSIVE DigitRunEnd(_, _)
DigitRunEnd(str, pos) ==
    IF pos <= Len(str) /\ str[pos] \in Digits THEN DigitRunEnd(str, pos + 1) ELSE pos

RECURSIVE int(_)
int(ds) ==
    IF ds = <<>> THEN 0
    ELSE 10 * int(SubSeq(ds, 1, Len(ds) - 1)) + DigitVal(ds[Len(ds)])

(* one optional group (\d+)<unit> of the pattern, tried at pos *)
MatchGroup(str, pos, unit) ==
    LET e == DigitRunEnd(str, pos)
    IN  IF e > pos /\ e <= Len(str) /\ lower(str[e]) = unit
        THEN [present |-> TRUE, value |-> int(SubSeq(str, pos, e - 1)), next |-> e + 1]
        ELSE [present |-> FALSE, value |-> 0, next |-> pos]

pattern_ends_at_end_only(str, pos) == pos = Len(str) + 1

(* "$" of re.match: the end of the string, or just before its last newline *)
pattern_ends(str, pos) ==
    \/ pos = Len(str) + 1
    \/ pos = Len(str) /\ str[pos] = "\n"

(* [exc, delta]: exc = "ValueError" for no match or no unit at all *)
parse_countdown_duration(duration_str) ==
    LET gd == MatchGroup(duration_str, 1, "d")
        gh == MatchGroup(duration_str, gd.next, "h")
        gm == MatchGroup(duration_str, gh.next, "m")
        gs == MatchGroup(duration_str, gm.next, "s")
    IN  IF ~pattern_ends(duration_str, gs.next)
        THEN [exc |-> "ValueError", delta |-> 0]
        ELSE IF ~(gd.present \/ gh.present \/ gm.present \/ gs.present)
        THEN [exc |-> "ValueError", delta |-> 0]
        ELSE [exc |-> "none",
              delta |-> gd.value * TicksPerDay + gh.value * TicksPerHour
                        + gm.value * TicksPerMinute + gs.value]

-----------------------------------------------------------------------------
(* date_calculator.get_next_cron_run_time                                  *)
(* A result is [exc, trigger, status, draws]: exc the exception that       *)
(* leaves the function ("none" when it returns), draws the number of       *)
(* candidates drawn from the iterator.                                      *)

Ret(trigger, status, draws) ==
    [exc |-> "none", trigger |-> trigger, status |-> status, draws |-> draws]

Raise(exc) == [exc |-> exc, trigger |-> NoTime, status |-> "FAILED", draws |-> 0]

(* the row of the candidate's date among the year's rows, or none *)
DayInfo(year_data, d) == {row \in year_data : row.date = d}

(* lines 142-148: some listed type matches the day *)
day_matched_limit(limit_days, info, t) ==
    \E limit_type \in limit_days :
        \/ limit_type = "WORKDAY" /\ is_workday(info)
        \/ limit_type = "HOLIDAY" /\ is_holiday(info)
        \/ limit_type = "WEEKEND" /\ is_weekend(info)
        \/ limit_type = "WEEKDAY_ONLY" /\ 1 <= isoweekday(t) /\ isoweekday(t) <= 5

lunar_check_ignoring_target(cfg, t) == "ok"

(* lines 108-135: "ok", "skip" (continue) or "fail" (return None, FAILED) *)
LunarCheck(cfg, t) ==
    IF ~cfg.is_lunar THEN "ok"
    ELSE IF cfg.lunar_month = 0 \/ cfg.lunar_day = 0 THEN "fail"
    ELSE IF fromSolarDate_raises(DayOf(t)) THEN "fail"
    ELSE LET l == fromSolarDate(DayOf(t))
         IN  IF l.month = cfg.lunar_month /\ l.day = cfg.lunar_day
             THEN "ok" ELSE "skip"

attempts_exhausted_late(attempt, max_attempts) == attempt > max_attempts

(* line 76, for attempt in range(max_attempts): the loop is over *)
attempts_exhausted(attempt, max_attempts) == attempt >= max_attempts

(* lines 93-105 and 137-140: limit_days needs the day's row and it is missing *)
calendar_missing(limit_days, year_data_local, info) ==
    limit_days # {} /\ (year_data_local = {} \/ info = {})

pending_calculation_as_failure(next_run_local, attempt) ==
    Ret(NoTime, "FAILED", attempt + 1)

(* lines 97, 105, 140: the unresolved candidate, to be computed later *)
pending_calculation(next_run_local, attempt) ==
    Ret(next_run_local, "PENDING_CALCULATION", attempt + 1)

end_time_ignored(end_dt_local, next_run_local) == FALSE

(* line 83: the candidate is past the rule's end *)
past_end_time(end_dt_local, next_run_local) ==
    end_dt_local # NoTime /\ next_run_local > end_dt_local

base_clamped_to_start(start_dt_local, base_local_time) ==
    IF start_dt_local # NoTime /\ base_local_time < start_dt_local
    THEN start_dt_local ELSE base_local_time

(* lines 62-64: a base before start_time moves to one second before it *)
clamp_base(start_dt_local, base_local_time) ==
    IF start_dt_local # NoTime /\ base_local_time < start_dt_local
    THEN start_dt_local - 1 ELSE base_local_time

(* lines 76-156: the candidate loop, from iterator position cur *)
RECURSIVE CandidateLoop(_, _, _, _, _)
CandidateLoop(cfg, db, cur, attempt, max_attempts) ==
    IF attempts_exhausted(attempt, max_attempts) THEN Ret(NoTime, "FAILED", attempt)
    ELSE IF get_next_raises(cfg.cron_expression) THEN Ret(NoTime, "FAILED", attempt + 1)
    ELSE CHOOSE ret \in {
    LET year_data_local == get_holiday_dates_for_year(db, YearOf(next_run_local))
        info == DayInfo(year_data_local, DayOf(next_run_local))
    IN  IF past_end_time(cfg.end_time, next_run_local)
        THEN Ret(NoTime, "COMPLETED", attempt + 1)
        ELSE IF cfg.start_time # NoTime /\ next_run_local < cfg.start_time
        THEN CandidateLoop(cfg, db, next_run_local, attempt + 1, max_attempts)
        ELSE IF calendar_missing(cfg.limit_days, year_data_local, info)
        THEN pending_calculation(next_run_local, attempt)
        ELSE IF LunarCheck(cfg, next_run_local) = "fail"
        THEN Ret(NoTime, "FAILED", attempt + 1)
        ELSE IF LunarCheck(cfg, next_run_local) = "skip"
        THEN CandidateLoop(cfg, db, next_run_local, attempt + 1, max_attempts)
        ELSE IF cfg.limit_days # {} /\ info = {}
        THEN pending_calculation(next_run_local, attempt)
        ELSE IF cfg.limit_days # {}
                /\ ~day_matched_limit(cfg.limit_days, CHOOSE r \in info : TRUE,
                                      next_run_local)
        THEN CandidateLoop(cfg, db, next_run_local, attempt + 1, max_attempts)
        ELSE Ret(next_run_local, "PENDING", attempt + 1)
    : next_run_local \in {get_next(cfg.cron_expression, cur)}} : TRUE

get_next_cron_run_time(cron_config, base_local_time, db, max_attempts) ==
    LET base == clamp_base(cron_config.start_time, base_local_time)
    IN  IF croniter_raises(cron_config.cron_expression)
        THEN Ret(NoTime, "FAILED", 0)
        ELSE CandidateLoop(cron_config, db, base, 0, max_attempts)

-----------------------------------------------------------------------------
(* date_calculator.calculate_initial_trigger_time                          *)
(* task_info is [is_recurring, cron_config, one_time_specific_config,      *)
(* countdown_config]; an absent config is NoConfig.                         *)

NoConfig == [absent |-> TRUE]

one_time_trigger_strict(trigger_at_local, current_local_time) ==
    IF trigger_at_local < current_local_time
    THEN Ret(current_local_time + 1, "PENDING", 0)
    ELSE Ret(trigger_at_local, "PENDING", 0)

(* lines 38-41: an absolute target, never scheduled in the past *)
one_time_trigger(trigger_at_local, current_local_time) ==
    IF trigger_at_local <= current_local_time
    THEN Ret(current_local_time + 1, "PENDING", 0)
    ELSE Ret(trigger_at_local, "PENDING", 0)

calculate_initial_trigger_time(task_info, current_local_time, db) ==
    IF task_info.is_recurring
    THEN IF task_info.cron_config = NoConfig THEN Raise("ValueError")
         ELSE get_next_cron_run_time(task_info.cron_config, current_local_time, db,
                                     MaxAttempts)
    ELSE IF task_info.one_time_specific_config # NoConfig
    THEN one_time_trigger(task_info.one_time_specific_config.trigger_at,
                          current_local_time)
    ELSE IF task_info.countdown_config # NoConfig
    THEN LET p == parse_countdown_duration(task_info.countdown_config.countdown_duration)
         IN  IF p.exc = "ValueError" THEN Ret(NoTime, "FAILED", 0)
             ELSE IF current_local_time + p.delta > DatetimeMax
             THEN Raise("OverflowError")
             ELSE Ret(current_local_time + p.delta, "PENDING", 0)
    ELSE Raise("ValueError")

-----------------------------------------------------------------------------
(* The inputs of the calculator *)

AllDows == 1..DaysPerWeek
AllSlots == 0..(TicksPerDay - 1)

BadExpr == [ok |-> FALSE, slots |-> {}, dows |-> {}]

ExprChoices ==
    {BadExpr} \cup
    {[ok |-> TRUE, slots |-> s, dows |-> d] :
        s \in {{Noon}, {1, Noon}, AllSlots}, d \in {AllDows, {6, 7}, {}}}

LimitChoices ==
    {{}, {"WORKDAY"}, {"HOLIDAY"}, {"WEEKEND"}, {"WEEKDAY_ONLY"}, {"WORKDAY", "WEEKEND"}}

(* (lunar_month, lunar_day); 0 = None.  Day LunarBig of month 2 never comes. *)
LunarChoices == {<<0, 0>>, <<1, 1>>, <<2, LunarBig>>}

StartChoices == {NoTime, TicksPerDay + 2, LunarTableEnd * TicksPerDay - Noon}
EndChoices == {NoTime, 3 * TicksPerDay}

CronConfigs ==
    {[cron_expression |-> e, start_time |-> st, end_time |-> en, limit_days |-> l,
      is_lunar |-> (lu[1] # 0), lunar_month |-> lu[1], lunar_day |-> lu[2]] :
        e \in ExprChoices, st \in StartChoices, en \in EndChoices,
        l \in LimitChoices, lu \in LunarChoices}

Alphabet == {"1", "2", "d", "h", "m", "s", "H"}

RECURSIVE StringsUpTo(_)
StringsUpTo(n) ==
    IF n = 0 THEN {<<>>}
    ELSE LET shorter == StringsUpTo(n - 1)
         IN  shorter \cup {Append(w, c) : w \in shorter, c \in Alphabet}

(* TaskInfoCreate as its validators admit it: a recurring task has a       *)
(* cron_config only, a one-shot task exactly one of the other two.          *)
RecurringInfo(cfg) ==
    [is_recurring |-> TRUE, cron_config |-> cfg,
     one_time_specific_config |-> NoConfig, countdown_config |-> NoConfig]

OneTimeInfo(t) ==
    [is_recurring |-> FALSE, cron_config |-> NoConfig,
     one_time_specific_config |-> [trigger_at |-> t], countdown_config |-> NoConfig]

CountdownInfo(str) ==
    [is_recurring |-> FALSE, cron_config |-> NoConfig,
     one_time_specific_config |-> NoConfig,
     countdown_config |-> [countdown_duration |-> str]]

TaskInfos ==
    {RecurringInfo(c) : c \in CronConfigs}
    \cup {OneTimeInfo(t) : t \in 0..(MaxNow + 2)}
    \cup {CountdownInfo(w) : w \in StringsUpTo(MaxStrLen)}

(* the holiday_dates table: the years 0..k-1, in one style, with or without a hole *)
CalendarDb(k, style, hole) ==
    {HolidayRow(style, d) : d \in {x \in 0..(k * DaysPerYear - 1) : x # hole}}

Calendars ==
    {CalendarDb(k, style, hole) :
        k \in 0..NumYears, style \in {"plain", "shift"}, hole \in {-1, HoleDay}}

-----------------------------------------------------------------------------
(* The service's state: the task table, the timers, the callbacks           *)

TaskIds == {1, 2}            \* ReminderTaskDB.id: generated, never handed out twice
MaxClock == 2                \* the service is observed over the ticks 0..MaxClock
MaxRequests == 2             \* and over at most this many task requests
MisfireGraceRecurring == 2   \* scaled misfire_grace_time of a recurring task's timer
MisfireGraceOneShot == 1     \* scaled misfire_grace_time of a one-shot task's timer
RuleEnd == TicksPerMinute    \* the end_time of the rule that runs out
UpdateTimes == {0, 2}        \* next_trigger_time values an update request may carry

NoStatus == "none"           \* None, for an Optional[TaskStatusEnum]
NoRecipient == ""            \* None, for target_chat_id and triggering_user_id

(* TaskInfo: the schedule fields the calculator reads, the recipient        *)
(* (target_chat_id or triggering_user_id) and is_dify_generated.  Exactly   *)
(* one channel is configured, as check_notification_channel_config demands. *)
TaskInfo(sched, recipient, dify) ==
    [is_recurring |-> sched.is_recurring, cron_config |-> sched.cron_config,
     one_time_specific_config |-> sched.one_time_specific_config,
     countdown_config |-> sched.countdown_config,
     target_chat_id |-> recipient, is_dify_generated |-> dify]

(* "* * * * *": the five-field expression, second 0 of every minute *)
EveryMinute ==
    [ok |-> TRUE, slots |-> {s \in AllSlots : s % TicksPerMinute = 0}, dows |-> AllDows]

Cron(expr, end_time, limit_days) ==
    [cron_expression |-> expr, start_time |-> NoTime, end_time |-> end_time,
     limit_days |-> limit_days, is_lunar |-> FALSE, lunar_month |-> 0, lunar_day |-> 0]

Profiles ==
    { TaskInfo(RecurringInfo(Cron(EveryMinute, NoTime, {})), "wxid", FALSE),
      TaskInfo(RecurringInfo(Cron(EveryMinute, RuleEnd, {})), "wxid", FALSE),
      TaskInfo(RecurringInfo(Cron(EveryMinute, NoTime, {"WORKDAY"})), "wxid", TRUE),
      TaskInfo(RecurringInfo(Cron(EveryMinute, RuleEnd, {"HOLIDAY"})), "wxid", FALSE),
      TaskInfo(RecurringInfo(Cron(EveryMinute, NoTime, {})), NoRecipient, FALSE),
      TaskInfo(RecurringInfo(Cron(BadExpr, NoTime, {})), "wxid", FALSE),
      TaskInfo(OneTimeInfo(2), "wxid", FALSE),
      TaskInfo(CountdownInfo(<<"1", "s">>), "wxid", FALSE) }

(* a row of reminder_tasks; NoRow before the id is handed out, DeletedRow after *)
NoRow == [exists |-> FALSE, deleted |-> FALSE]
DeletedRow == [exists |-> FALSE, deleted |-> TRUE]

Row(status, trigger, info) ==
    [exists |-> TRUE, deleted |-> FALSE, status |-> status,
     next_trigger_time |-> trigger, is_recurring |-> info.is_recurring,
     task_info |-> info]

recalculating_nothing(st) == {}

recalculating_every_task(st) == {id \in TaskIds : st[id].exists}

get_tasks_for_recalculation(st) ==
    {id \in TaskIds : st[id].exists /\ st[id].status = "PENDING_CALCULATION"}

(* the years the calendar provider has published: this year's, not yet the next *)
ProviderYears == {0}

(* the holiday_dates rows the provider returns for one year; none for a year *)
(* it has not published (fetch_holiday_data_from_api returns None)           *)
YearRows(year) ==
    IF year \in ProviderYears
    THEN {HolidayRow("plain", d) :
             d \in (year * DaysPerYear)..((year + 1) * DaysPerYear - 1)}
    ELSE {}

(* The job store keeps the jobs sorted by run time, then id *)
JobBefore(a, b) ==
    a.run_date < b.run_date \/ (a.run_date = b.run_date /\ a.id < b.id)

RECURSIVE InsertJob(_, _)
InsertJob(js, job) ==
    IF js = <<>> THEN <<job>>
    ELSE IF JobBefore(job, Head(js)) THEN <<job>> \o js
    ELSE <<Head(js)>> \o InsertJob(Tail(js), job)

get_job(js, job_id) == \E i \in DOMAIN js : js[i].id = job_id

remove_earliest_job(js, job_id) == IF js = <<>> THEN js ELSE Tail(js)

remove_job(js, job_id) == SelectSeq(js, LAMBDA j : j.id # job_id)

add_job_keeping_existing(js, job) == InsertJob(js, job)

add_job_alone(js, job) == <<job>>

(* add_job(..., id=job_id, replace_existing=True) *)
add_job(js, job) == InsertJob(remove_job(js, job.id), job)

(* lines 59-80 *)
add_or_update_job_in_scheduler(js, id, task) ==
    IF task.next_trigger_time = NoTime THEN js
    ELSE add_job(js, [id |-> id, run_date |-> task.next_trigger_time,
                      misfire_grace_time |->
                          IF task.is_recurring THEN MisfireGraceRecurring
                          ELSE MisfireGraceOneShot])

job_never_removed(js, task_id) == js

(* lines 82-89 *)
remove_job_from_scheduler(js, task_id) ==
    IF get_job(js, task_id) THEN remove_job(js, task_id) ELSE js

armed_whatever_the_status(task) == task.next_trigger_time # NoTime

(* the handlers arm a task exactly when it is PENDING with a trigger *)
Fireable(task) == task.status = "PENDING" /\ task.next_trigger_time # NoTime

(* a coroutine of execute_task_by_id: where it is suspended, the TaskInfo   *)
(* it read at line 34, and the point it had reached when an update of its   *)
(* task last went through                                                   *)
Callback(pc, info, superseded) ==
    [pc |-> pc, task_info |-> info, superseded |-> superseded]

RemoveAt(s, i) == SubSeq(s, 1, i - 1) \o SubSeq(s, i + 1, Len(s))

max_instances_unlimited(insts) == FALSE

(* the executor refuses a run while max_instances (1) runs of the job are on *)
max_instances_reached(insts) == Len(insts) >= 1

(* what a step did: the operation, its task, how it ended, the ids it armed *)
(* and the timers that were live for those ids before                       *)
Ev(op, id, outcome, armed, replaced, superseded) ==
    [op |-> op, id |-> id, outcome |-> outcome, armed |-> armed,
     replaced |-> replaced, superseded |-> superseded]

NoEvent == Ev("none", 0, "none", {}, {}, "none")

Replaced(js, ids) ==
    {[id |-> js[i].id, run_date |-> js[i].run_date] :
        i \in {k \in DOMAIN js : js[k].id \in ids}}

(* the scheduler before start() and after shutdown(): nothing is scheduled *)
Stopped == [running |-> FALSE, daily_maintenance_job |-> FALSE]

(* the scheduler after start(): lines 43-49 *)
Started == [running |-> TRUE, daily_maintenance_job |-> TRUE]

SchedInit ==
    /\ store = [id \in TaskIds |-> NoRow]
    /\ jobs = <<>>
    /\ running = [id \in TaskIds |-> <<>>]
    /\ requests = 0
    /\ scheduler = Stopped
    /\ event = NoEvent

-----------------------------------------------------------------------------
(* The WeChat front end (simple_dify_on_wechat/main.py): its state          *)

MESSAGE_BATCH_DELAY_SECONDS == 2
MaxMessages == 3

ContactKeys == {"friend", "room"}
MessageIds == 1..MaxMessages

(* no entry under the key: `key in self.user_timers` is false *)
NoTimer == 0

(* a threading.Timer: not made yet, started, fired (its function has been   *)
(* called) or cancelled; remaining is what is left of its interval          *)
NoTimerObject == [state |-> "none", key |-> "", remaining |-> 0]
Timer(key) ==
    [state |-> "started", key |-> key, remaining |-> MESSAGE_BATCH_DELAY_SECONDS]

(* Application.__init__, lines 30-32 *)
ApplicationInit ==
    /\ message_buffers = [key \in ContactKeys |-> <<>>]
    /\ user_timers = [key \in ContactKeys |-> NoTimer]
    /\ timers = [m \in MessageIds |-> NoTimerObject]
    /\ threads = [m \in MessageIds |-> "none"]
    /\ batches = [m \in MessageIds |-> <<>>]
    /\ received = 0
    /\ stopping = [pc |-> "running", keys |-> {}]

-----------------------------------------------------------------------------
(* The calculator called on its own: one call per behaviour *)

Idle == [op |-> "none", res |-> Ret(NoTime, "PENDING", 0)]

CalcInit ==
    /\ now \in 0..MaxNow
    /\ holiday_db \in Calendars
    /\ calc_in \in TaskInfos
    /\ calc_out = Idle
    /\ ApplicationInit
    /\ SchedInit

CallCalculateInitial ==
    /\ calc_out.op = "none"
    /\ calc_out' = [op |-> "initial",
                    res |-> calculate_initial_trigger_time(calc_in, now, holiday_db)]
    /\ UNCHANGED <<now, holiday_db, calc_in, sched_vars, batch_vars>>

CallGetNextCron ==
    /\ calc_out.op = "none"
    /\ calc_in.is_recurring
    /\ calc_in.cron_config # NoConfig
    /\ calc_out' = [op |-> "next",
                    res |-> get_next_cron_run_time(calc_in.cron_config, now, holiday_db,
                                                   MaxAttempts)]
    /\ UNCHANGED <<now, holiday_db, calc_in, sched_vars, batch_vars>>

CalcNext == CallCalculateInitial \/ CallGetNextCron

CalcSpec == CalcInit /\ [][CalcNext]_vars

-----------------------------------------------------------------------------
(* The request models (app/schemas.py).  A parsed model is its values,      *)
(* defaults filled in, together with the names of the fields the request    *)
(* gave (model_fields_set), which model_dump(exclude_unset=True) keeps.     *)

InfoFields ==
    {"is_recurring", "cron_config", "one_time_specific_config", "countdown_config",
     "target_chat_id", "is_dify_generated"}

CronFields ==
    {"cron_expression", "start_time", "end_time", "limit_days", "is_lunar",
     "lunar_month", "lunar_day"}

(* lines 31-38 *)
check_lunar_fields_consistency(cfg) ==
    IF cfg.is_lunar THEN cfg.lunar_month # 0 /\ cfg.lunar_day # 0
    ELSE cfg.lunar_month = 0 /\ cfg.lunar_day = 0

schedule_config_unchecked(info) == TRUE

(* lines 96-108 *)
check_task_type_and_schedule_config(info) ==
    IF info.is_recurring
    THEN /\ info.cron_config # NoConfig
         /\ ~(info.countdown_config # NoConfig \/ info.one_time_specific_config # NoConfig)
    ELSE /\ info.cron_config = NoConfig
         /\ (IF info.countdown_config # NoConfig THEN 1 ELSE 0)
            + (IF info.one_time_specific_config # NoConfig THEN 1 ELSE 0) = 1

(* TaskInfoCreate built from a dict: the validators of the model and of     *)
(* its cron_config accept the values                                         *)
TaskInfoCreate(info) ==
    /\ IF info.cron_config # NoConfig
       THEN check_lunar_fields_consistency(info.cron_config) ELSE TRUE
    /\ check_task_type_and_schedule_config(info)

(* main.py lines 491-499: the given fields replace the stored ones, a given *)
(* dict merged into a stored dict field by field                             *)
deep_update_internal(target, updates, fields_set, cron_fields_set) ==
    LET top(k) == IF k \in fields_set THEN updates[k] ELSE target[k]
        cron(f) == IF f \in cron_fields_set
                   THEN updates.cron_config[f] ELSE target.cron_config[f]
    IN  [is_recurring |-> top("is_recurring"),
         cron_config |->
             IF "cron_config" \in fields_set /\ updates.cron_config # NoConfig
                /\ target.cron_config # NoConfig
             THEN [cron_expression |-> cron("cron_expression"),
                   start_time |-> cron("start_time"), end_time |-> cron("end_time"),
                   limit_days |-> cron("limit_days"), is_lunar |-> cron("is_lunar"),
                   lunar_month |-> cron("lunar_month"), lunar_day |-> cron("lunar_day")]
             ELSE top("cron_config"),
         one_time_specific_config |-> top("one_time_specific_config"),
         countdown_config |-> top("countdown_config"),
         target_chat_id |-> top("target_chat_id"),
         is_dify_generated |-> top("is_dify_generated")]

-----------------------------------------------------------------------------
(* The task endpoints (app/main.py)                                         *)

FreeIds == {id \in TaskIds : store[id] = NoRow}

(* lines 69-90: POST /tasks/ *)
create_new_task_structured(task_info) ==
    /\ scheduler.running
    /\ FreeIds # {}
    /\ requests < MaxRequests
    /\ requests' = requests + 1
    /\ \E r \in {IF TaskInfoCreate(task_info)
                  THEN calculate_initial_trigger_time(task_info, now, holiday_db)
                  ELSE Raise("ValidationError")} :
       LET id == Min(FreeIds)
           db_task == Row(r.status, r.trigger, task_info)
       IN  IF r.exc # "none" \/ (r.status = "FAILED" /\ r.trigger = NoTime)
           THEN /\ event' = Ev("create", 0, "rejected", {}, {}, "none")
                /\ UNCHANGED <<store, jobs>>
           ELSE /\ store' = [store EXCEPT ![id] = db_task]
                /\ jobs' = IF Fireable(db_task)
                           THEN add_or_update_job_in_scheduler(jobs, id, db_task)
                           ELSE jobs
                /\ event' = Ev("create", id, "created",
                               IF Fireable(db_task) THEN {id} ELSE {}, {}, "none")
    /\ UNCHANGED <<now, holiday_db, calc_vars, running, scheduler, batch_vars>>

UpdateStatuses == {"PENDING", "COMPLETED"}

(* TaskUpdateRequest: task_info with the names of the fields the request   *)
(* gave, of the model and of its cron_config; status; next_trigger_time    *)
TaskUpdateRequest(task_info, fields_set, cron_fields_set, status, next_trigger_time) ==
    [task_info |-> task_info, fields_set |-> fields_set,
     cron_fields_set |-> cron_fields_set, status |-> status,
     next_trigger_time |-> next_trigger_time]

(* a new task_info with every field given, or a status and/or a trigger time *)
UpdateRequests ==
    {TaskUpdateRequest(p, InfoFields, CronFields, NoStatus, NoTime) : p \in Profiles}
    \cup {TaskUpdateRequest(NoConfig, {}, {}, s, NoTime) : s \in UpdateStatuses}
    \cup {TaskUpdateRequest(NoConfig, {}, {}, "COMPLETED", Min(UpdateTimes))}
    \cup {TaskUpdateRequest(NoConfig, {}, {}, NoStatus, t) : t \in UpdateTimes}

(* every coroutine of the task learns that an update went through *)
Supersede(insts) ==
    [i \in DOMAIN insts |-> [insts[i] EXCEPT !.superseded = insts[i].pc]]

(* lines 469-580: PUT /tasks/{task_id} *)
update_existing_task(task_id, task_update) ==
    /\ scheduler.running
    /\ store[task_id].exists
    /\ requests < MaxRequests
    /\ requests' = requests + 1
    /\ \E merged_task_info_dict \in
            {IF task_update.task_info # NoConfig
             THEN deep_update_internal(store[task_id].task_info, task_update.task_info,
                                       task_update.fields_set,
                                       task_update.cron_fields_set)
             ELSE store[task_id].task_info} :
       \E r \in {IF task_update.task_info = NoConfig
                  THEN Ret(store[task_id].next_trigger_time, store[task_id].status, 0)
                  ELSE IF TaskInfoCreate(task_update.task_info)
                          /\ TaskInfoCreate(merged_task_info_dict)
                  THEN calculate_initial_trigger_time(merged_task_info_dict, now,
                                                      holiday_db)
                  ELSE Raise("ValidationError")} :
       LET db_task_before_update == store[task_id]
           has_info == task_update.task_info # NoConfig
           status_val == IF has_info THEN r.status
                         ELSE IF task_update.status # NoStatus THEN task_update.status
                         ELSE db_task_before_update.status
           direct == task_update.next_trigger_time # NoTime /\ ~has_info
           new_next_trigger_local_time_val ==
               IF direct THEN task_update.next_trigger_time ELSE r.trigger
           new_status_val ==
               IF direct /\ task_update.status = NoStatus
                         /\ status_val # "PENDING_CALCULATION"
               THEN "PENDING" ELSE status_val
           updated_db_task ==
               Row(new_status_val, new_next_trigger_local_time_val,
                   merged_task_info_dict)
       IN  IF r.exc # "none"
           THEN /\ event' = Ev("update", task_id, "rejected", {}, {}, "none")
                /\ UNCHANGED <<store, jobs, running>>
           ELSE /\ store' = [store EXCEPT ![task_id] = updated_db_task]
                /\ jobs' = IF Fireable(updated_db_task)
                           THEN add_or_update_job_in_scheduler(jobs, task_id,
                                                               updated_db_task)
                           ELSE remove_job_from_scheduler(jobs, task_id)
                /\ running' = [running EXCEPT ![task_id] = Supersede(@)]
                /\ event' = Ev("update", task_id, "updated",
                               IF Fireable(updated_db_task) THEN {task_id} ELSE {},
                               IF Fireable(updated_db_task)
                               THEN Replaced(jobs, {task_id}) ELSE {}, "none")
    /\ UNCHANGED <<now, holiday_db, calc_vars, scheduler, batch_vars>>

(* lines 583-597: DELETE /tasks/{task_id} *)
delete_existing_task(task_id) ==
    /\ scheduler.running
    /\ store[task_id].exists
    /\ requests < MaxRequests
    /\ requests' = requests + 1
    /\ store' = [store EXCEPT ![task_id] = DeletedRow]
    /\ jobs' = remove_job_from_scheduler(jobs, task_id)
    /\ event' = Ev("delete", task_id, "deleted", {}, {}, "none")
    /\ UNCHANGED <<now, holiday_db, calc_vars, running, scheduler, batch_vars>>

(* lines 599-606: POST /admin/update-calendar/{year}, the provider answering *)
trigger_calendar_update(year) ==
    /\ scheduler.running
    /\ holiday_db' = holiday_db \cup YearRows(year)
    /\ event' = Ev("calendar", 0, "updated", {}, {}, "none")
    /\ UNCHANGED <<now, calc_vars, store, jobs, running, requests, scheduler, batch_vars>>

-----------------------------------------------------------------------------
(* The scheduler's loop: a due timer is taken out of the job store (a        *)
(* DateTrigger has no second fire time) and its run is submitted, unless     *)
(* the job's instance limit is reached or the run is late beyond the grace.  *)

process_due_jobs ==
    /\ scheduler.running
    /\ jobs # <<>>
    /\ Head(jobs).run_date <= now
    /\ LET job == Head(jobs)
           outcome == IF max_instances_reached(running[job.id]) THEN "max_instances"
                      ELSE IF now - job.run_date > job.misfire_grace_time THEN "missed"
                      ELSE "submitted"
       IN  /\ jobs' = remove_job(jobs, job.id)
           /\ running' = IF outcome = "submitted"
                         THEN [running EXCEPT
                                 ![job.id] = Append(@, Callback("start", NoConfig, "none"))]
                         ELSE running
           /\ event' = Ev("fire", job.id, outcome, {}, {}, "none")
    /\ UNCHANGED <<now, holiday_db, calc_vars, store, requests, scheduler, batch_vars>>

(* the clock; a due timer is processed before time moves on *)
Tick ==
    /\ now < MaxClock
    /\ IF jobs = <<>> THEN TRUE ELSE Head(jobs).run_date > now
    /\ now' = now + 1
    /\ event' = Ev("tick", 0, "none", {}, {}, "none")
    /\ UNCHANGED <<holiday_db, calc_vars, store, jobs, running, requests, scheduler, batch_vars>>


-----------------------------------------------------------------------------
(* The timer callback (app/services/task_executor.py), cut at its awaits:   *)
(* content generation (line 41) and the notification send (lines 81, 101).  *)
(* A segment yields the table, the timers, the coroutine's next position    *)
(* (Finished when it returns), how it ended and the ids it armed.           *)

Finished == [pc |-> "done"]

Segment(st, js, next, outcome, armed) ==
    [store |-> st, jobs |-> js, next |-> next, outcome |-> outcome, armed |-> armed]

(* lines 54-113: the recipient, then the send *)
AfterContent(task_id, cb, st, js) ==
    IF cb.task_info.target_chat_id = NoRecipient
    THEN IF ~st[task_id].exists
         THEN Segment(st, js, Finished, "deleted", {})
         ELSE Segment([st EXCEPT ![task_id].status = "FAILED"],
                      IF ~st[task_id].is_recurring
                      THEN remove_job_from_scheduler(js, task_id) ELSE js,
                      Finished, "no_recipient", {})
    ELSE Segment(st, js, [cb EXCEPT !.pc = "send"], "sending", {})

any_status_executable(status) == TRUE

(* line 25: the statuses in which a fired task is executed *)
is_executable(status) == status \in {"PENDING", "RUNNING"}

(* lines 13-52: load the task, mark it RUNNING, build the content *)
ExecStart(task_id, cb, st, js) ==
    LET task == st[task_id]
        running_st == [st EXCEPT ![task_id].status = "RUNNING"]
    IN  IF ~task.exists
        THEN Segment(st, remove_job_from_scheduler(js, task_id), Finished,
                     "not_found", {})
        ELSE IF ~is_executable(task.status)
        THEN Segment(st,
                     IF task.next_trigger_time = NoTime
                     THEN remove_job_from_scheduler(js, task_id) ELSE js,
                     Finished, "skipped", {})
        ELSE IF task.task_info.is_dify_generated
        THEN Segment(running_st, js,
                     [cb EXCEPT !.pc = "generate", !.task_info = task.task_info],
                     "generating", {})
        ELSE AfterContent(task_id, [cb EXCEPT !.task_info = task.task_info],
                          running_st, js)

after_send_leaving_running(task_id, cb, st, js, sent, r) ==
    Segment(st, js, Finished, sent, {})

(* lines 115-155: record the send, then the next occurrence or the end *)
AfterSend(task_id, cb, st, js, sent, r) ==
    LET task == st[task_id]
        rescheduled == [task EXCEPT !.status = r.status, !.next_trigger_time = r.trigger]
        ended == [task EXCEPT !.status = IF sent = "sent" THEN "COMPLETED" ELSE "FAILED",
                              !.next_trigger_time = NoTime]
    IN  IF ~task.exists
        THEN Segment(st, js, Finished, "deleted", {})
        ELSE IF sent = "error"
        THEN Segment([st EXCEPT ![task_id].status = "FAILED"],
                     remove_job_from_scheduler(js, task_id), Finished, "error", {})
        ELSE IF task.is_recurring /\ cb.task_info.cron_config # NoConfig
        THEN IF Fireable(rescheduled)
             THEN Segment([st EXCEPT ![task_id] = rescheduled],
                          add_or_update_job_in_scheduler(js, task_id, rescheduled),
                          Finished, sent, {task_id})
             ELSE Segment([st EXCEPT ![task_id] = rescheduled],
                          remove_job_from_scheduler(js, task_id), Finished, sent, {})
        ELSE Segment([st EXCEPT ![task_id] = ended],
                     remove_job_from_scheduler(js, task_id), Finished, sent, {})

Resume(op, task_id, i, seg) ==
    /\ store' = seg.store
    /\ jobs' = seg.jobs
    /\ running' = [running EXCEPT
                     ![task_id] = IF seg.next = Finished THEN RemoveAt(@, i)
                                  ELSE [@ EXCEPT ![i] = seg.next]]
    /\ event' = Ev(op, task_id, seg.outcome, seg.armed, Replaced(jobs, seg.armed),
                   running[task_id][i].superseded)
    /\ UNCHANGED <<now, holiday_db, calc_vars, requests, scheduler, batch_vars>>

execute_task_by_id(task_id, i) ==
    /\ running[task_id][i].pc = "start"
    /\ \E seg \in {ExecStart(task_id, running[task_id][i], store, jobs)} :
           Resume("execute", task_id, i, seg)

execute_task_by_id_generated(task_id, i) ==
    /\ running[task_id][i].pc = "generate"
    /\ \E seg \in {AfterContent(task_id, running[task_id][i], store, jobs)} :
           Resume("execute", task_id, i, seg)

(* lines 119-126: the next occurrence, computed from now *)
NextOccurrence(task_info, base_local_time, db) ==
    IF task_info.cron_config = NoConfig THEN Ret(NoTime, "FAILED", 0)
    ELSE get_next_cron_run_time(task_info.cron_config, base_local_time, db, MaxAttempts)

execute_task_by_id_sent(task_id, i, sent) ==
    /\ running[task_id][i].pc = "send"
    /\ \E r \in {NextOccurrence(running[task_id][i].task_info, now, holiday_db)} :
       \E seg \in {AfterSend(task_id, running[task_id][i], store, jobs, sent, r)} :
           Resume("execute", task_id, i, seg)

-----------------------------------------------------------------------------
(* daily_maintenance_job (task_scheduler.py lines 91-147): the calendar     *)
(* fetch for next year, then the sweep of the PENDING_CALCULATION tasks.    *)
(* The job reads no task before the fetch returns.                          *)

(* lines 110-116: the occurrence at or after the stored estimate *)
Recalculation(task_db, t, db) ==
    NextOccurrence(task_db.task_info,
                   (IF task_db.next_trigger_time # NoTime
                    THEN task_db.next_trigger_time ELSE t) - TicksPerMinute,
                   db)

(* lines 104-137, one task, given its recalculation r; acc is the table,   *)
(* the timers and the ids armed so far                                      *)
Recalculate(task_id, acc, r) ==
    LET task_db == acc.store[task_id]
        pending == [task_db EXCEPT !.status = r.status, !.next_trigger_time = r.trigger]
        dropped == [task_db EXCEPT !.status = r.status, !.next_trigger_time = NoTime]
        failed == [task_db EXCEPT !.status = "FAILED", !.next_trigger_time = NoTime]
    IN  IF task_db.task_info.is_recurring /\ task_db.task_info.cron_config # NoConfig
        THEN IF r.trigger # NoTime /\ r.status = "PENDING"
             THEN [store |-> [acc.store EXCEPT ![task_id] = pending],
                   jobs |-> add_or_update_job_in_scheduler(acc.jobs, task_id, pending),
                   armed |-> acc.armed \cup {task_id}]
             ELSE IF r.trigger # NoTime /\ r.status = "PENDING_CALCULATION"
             THEN [acc EXCEPT !.store[task_id].next_trigger_time = r.trigger]
             ELSE [acc EXCEPT !.store[task_id] = dropped,
                              !.jobs = remove_job_from_scheduler(acc.jobs, task_id)]
        ELSE [acc EXCEPT !.store[task_id] = failed,
                         !.jobs = remove_job_from_scheduler(acc.jobs, task_id)]

(* lines 103-141, the loop *)
RECURSIVE Sweep(_, _, _, _)
Sweep(ids, acc, t, db) ==
    IF ids = {} THEN acc
    ELSE CHOOSE swept \in
             {Sweep(ids \ {Min(ids)}, one, t, db) :
                 one \in {Recalculate(Min(ids), acc, r) :
                             r \in {Recalculation(acc.store[Min(ids)], t, db)}}} : TRUE

daily_maintenance_job(fetched) ==
    /\ scheduler.daily_maintenance_job
    /\ UNCHANGED <<now, calc_vars, running, requests, scheduler, batch_vars>>
    /\ \E db \in {IF fetched THEN holiday_db \cup YearRows(YearOf(now) + 1)
                   ELSE holiday_db} :
       \E swept \in {Sweep(get_tasks_for_recalculation(store),
                           [store |-> store, jobs |-> jobs, armed |-> {}], now, db)} :
           /\ holiday_db' = db
           /\ store' = swept.store
           /\ jobs' = swept.jobs
           /\ event' = Ev("maintenance", 0, "swept", swept.armed,
                          Replaced(jobs, swept.armed), "none")

-----------------------------------------------------------------------------
(* TaskSchedulerService.start and shutdown (task_scheduler.py lines 21-57), *)
(* called by the application's startup and shutdown events.  The job store  *)
(* lives in memory: it and the coroutines in progress end with the process. *)

restart_rescheduling_nothing(st) == {}

(* lines 29-32: the PENDING tasks that have a trigger time *)
tasks_to_schedule(st) ==
    {id \in TaskIds : st[id].exists /\ st[id].status = "PENDING"
                                    /\ st[id].next_trigger_time # NoTime}

(* lines 34-35 *)
RECURSIVE ScheduleAll(_, _, _)
ScheduleAll(ids, js, st) ==
    IF ids = {} THEN js
    ELSE ScheduleAll(ids \ {Min(ids)},
                     add_or_update_job_in_scheduler(js, Min(ids), st[Min(ids)]), st)

(* line 26, ensure_calendar_data_exists: this year and the next *)
StartupYears(t) == {YearOf(t), YearOf(t) + 1}

(* lines 21-52; fetched = the years the provider answered for *)
start(fetched) ==
    IF scheduler.running THEN UNCHANGED vars
    ELSE /\ holiday_db' = holiday_db \cup UNION {YearRows(year) : year \in fetched}
         /\ jobs' = ScheduleAll(tasks_to_schedule(store), jobs, store)
         /\ scheduler' = Started
         /\ event' = Ev("start", 0, "started", tasks_to_schedule(store), {}, "none")
         /\ UNCHANGED <<now, calc_vars, store, running, requests, batch_vars>>

(* lines 54-57 and the end of the process *)
shutdown ==
    /\ scheduler.running
    /\ scheduler' = Stopped
    /\ jobs' = <<>>
    /\ running' = [id \in TaskIds |-> <<>>]
    /\ event' = Ev("shutdown", 0, "stopped", {}, {}, "none")
    /\ UNCHANGED <<now, holiday_db, calc_vars, store, requests, batch_vars>>

-----------------------------------------------------------------------------
(* The service *)

CalendarYears == {0}    \* the year the clock is in
SendOutcomes == {"sent", "send_failed", "error"}

Init ==
    /\ now = 0
    /\ holiday_db = {}
    /\ calc_in = NoConfig
    /\ calc_out = Idle
    /\ ApplicationInit
    /\ SchedInit

Next ==
    \/ \E fetched \in SUBSET StartupYears(now) : start(fetched)
    \/ shutdown
    \/ \E task_info \in Profiles : create_new_task_structured(task_info)
    \/ \E task_id \in TaskIds : \E task_update \in UpdateRequests :
           update_existing_task(task_id, task_update)
    \/ \E task_id \in TaskIds : delete_existing_task(task_id)
    \/ \E year \in CalendarYears : trigger_calendar_update(year)
    \/ process_due_jobs
    \/ \E task_id \in TaskIds : \E i \in DOMAIN running[task_id] :
           execute_task_by_id(task_id, i)
    \/ \E task_id \in TaskIds : \E i \in DOMAIN running[task_id] :
           execute_task_by_id_generated(task_id, i)
    \/ \E task_id \in TaskIds : \E i \in DOMAIN running[task_id] :
           \E sent \in SendOutcomes : execute_task_by_id_sent(task_id, i, sent)
    \/ \E fetched \in BOOLEAN : daily_maintenance_job(fetched)
    \/ Tick

Spec == Init /\ [][Next]_vars

(* The same service with its scheduling assumed: a stopped process is       *)
(* started again (startup_event), and the daily maintenance job, a cron     *)
(* job of the running scheduler, runs again and again.                      *)
LiveSpec ==
    /\ Init /\ [][Next]_vars
    /\ WF_vars(\E fetched \in SUBSET StartupYears(now) : start(fetched))
    /\ SF_vars(\E fetched \in BOOLEAN : daily_maintenance_job(fetched))

-----------------------------------------------------------------------------
(* The two scheduler calls on their own (task_scheduler.py lines 59-89),    *)
(* applied to a table and a timer set the handlers did not prepare, and     *)
(* with the scheduler's add_job free to raise.  Spec takes add_job to       *)
(* accept every instant the handlers pass to it.                            *)

(* lines 70-80: add_job inside try; its exception is printed, no more *)
add_or_update_job_in_scheduler_try(js, id, task, add_job_raises) ==
    IF task.next_trigger_time # NoTime /\ add_job_raises THEN js
    ELSE add_or_update_job_in_scheduler(js, id, task)

TimerStatuses == {"PENDING", "PENDING_CALCULATION", "COMPLETED"}
TimerTimes == {NoTime, 1, 2}

TimerRows ==
    {NoRow} \cup
    {Row(status, t, TaskInfo(OneTimeInfo(1), "wxid", FALSE)) :
        status \in TimerStatuses, t \in TimerTimes}

(* the job store holding the timer at[id] of each id that has one *)
RECURSIVE JobsAt(_, _)
JobsAt(ids, at) ==
    IF ids = {} THEN <<>>
    ELSE IF at[Min(ids)] = NoTime THEN JobsAt(ids \ {Min(ids)}, at)
    ELSE InsertJob(JobsAt(ids \ {Min(ids)}, at),
                   [id |-> Min(ids), run_date |-> at[Min(ids)],
                    misfire_grace_time |-> MisfireGraceOneShot])

TimerInit ==
    /\ now = 0
    /\ holiday_db = {}
    /\ calc_in = NoConfig
    /\ calc_out = Idle
    /\ ApplicationInit
    /\ store \in [TaskIds -> TimerRows]
    /\ jobs \in {JobsAt(TaskIds, at) : at \in [TaskIds -> TimerTimes]}
    /\ running = [id \in TaskIds |-> <<>>]
    /\ requests = 0
    /\ scheduler = Started
    /\ event = NoEvent

(* scheduler_service_instance.add_or_update_job_in_scheduler(task) *)
CallArm(task_id, add_job_raises) ==
    /\ store[task_id].exists
    /\ jobs' = add_or_update_job_in_scheduler_try(jobs, task_id, store[task_id],
                                                  add_job_raises)
    /\ event' = Ev("arm", task_id,
                   IF store[task_id].next_trigger_time = NoTime THEN "no_trigger"
                   ELSE IF add_job_raises THEN "add_job_failed" ELSE "armed",
                   IF store[task_id].next_trigger_time = NoTime \/ add_job_raises
                   THEN {} ELSE {task_id},
                   {}, "none")
    /\ UNCHANGED <<now, holiday_db, calc_vars, store, running, requests, scheduler, batch_vars>>

(* scheduler_service_instance.remove_job_from_scheduler(task_id) *)
CallDisarm(task_id) ==
    /\ jobs' = remove_job_from_scheduler(jobs, task_id)
    /\ event' = Ev("disarm", task_id,
                   IF get_job(jobs, task_id) THEN "removed" ELSE "absent",
                   {}, {}, "none")
    /\ UNCHANGED <<now, holiday_db, calc_vars, store, running, requests, scheduler, batch_vars>>

TimerNext ==
    \/ \E task_id \in TaskIds : \E add_job_raises \in BOOLEAN :
           CallArm(task_id, add_job_raises)
    \/ \E task_id \in TaskIds : CallDisarm(task_id)

TimerSpec == TimerInit /\ [][TimerNext]_vars

-----------------------------------------------------------------------------
(* parse_countdown_duration called on its own, on every short string over  *)
(* digits, unit letters in both cases and the newline, and on a few        *)
(* strings naming all four units.                                           *)

DurationAlphabet == {"0", "1", "2", "d", "h", "m", "s", "H", "\n"}

RECURSIVE WordsUpTo(_, _)
WordsUpTo(alphabet, n) ==
    IF n = 0 THEN {<<>>}
    ELSE LET shorter == WordsUpTo(alphabet, n - 1)
         IN  shorter \cup {Append(w, c) : w \in shorter, c \in alphabet}

FullDurations ==
    {<<"1", "d", "2", "h", "1", "m", "2", "s">>,
     <<"0", "d", "0", "h", "0", "m", "0", "s">>,
     <<"1", "d", "2", "H", "1", "m", "2", "s">>,
     <<"1", "h", "2", "d", "1", "m", "2", "s">>,
     <<"1", "d", "2", "h", "1", "m", "2", "s", "\n">>,
     <<"1", "d", "2", "h", "1", "m", "2", "s", "1">>}

DurationStrings == WordsUpTo(DurationAlphabet, MaxDurationLen) \cup FullDurations

ParseInit ==
    /\ now = 0
    /\ holiday_db = {}
    /\ calc_in \in {CountdownInfo(w) : w \in DurationStrings}
    /\ calc_out = Idle
    /\ ApplicationInit
    /\ SchedInit

CallParseCountdown ==
    /\ calc_out.op = "none"
    /\ calc_in.countdown_config # NoConfig
    /\ calc_out' = [op |-> "parse",
                    res |-> parse_countdown_duration(
                                calc_in.countdown_config.countdown_duration)]
    /\ UNCHANGED <<now, holiday_db, calc_in, sched_vars, batch_vars>>

ParseNext == CallParseCountdown

ParseSpec == ParseInit /\ [][ParseNext]_vars

-----------------------------------------------------------------------------
(* The create and update endpoints given every combination of the schedule *)
(* fields, admissible or not, an update naming any of them.                 *)

ScheduleFields ==
    {"is_recurring", "cron_config", "one_time_specific_config", "countdown_config"}

LunarCron ==
    [cron_expression |-> EveryMinute, start_time |-> NoTime, end_time |-> NoTime,
     limit_days |-> {}, is_lunar |-> TRUE, lunar_month |-> 1, lunar_day |-> 1]

AnyInfos ==
    {TaskInfo([is_recurring |-> b, cron_config |-> c, one_time_specific_config |-> o,
               countdown_config |-> d], "wxid", FALSE) :
        b \in BOOLEAN, c \in {NoConfig, Cron(EveryMinute, NoTime, {}), LunarCron},
        o \in {NoConfig, [trigger_at |-> 2]},
        d \in {NoConfig, [countdown_duration |-> <<"1", "s">>]}}

(* a field whose value is not the default was given by the request *)
GivenFields(info) ==
    {"target_chat_id"}
    \cup (IF info.is_recurring THEN {"is_recurring"} ELSE {})
    \cup {k \in ScheduleFields \ {"is_recurring"} : info[k] # NoConfig}

GivenCronFields(info) ==
    IF info.cron_config = NoConfig THEN {}
    ELSE {"cron_expression"}
         \cup (IF info.cron_config.is_lunar
               THEN {"is_lunar", "lunar_month", "lunar_day"} ELSE {})

AnyUpdateRequests ==
    {TaskUpdateRequest(info, fields_set, cron_fields_set, NoStatus, NoTime) :
        info \in AnyInfos,
        fields_set \in SUBSET (ScheduleFields \cup {"target_chat_id"}),
        cron_fields_set \in {{}, {"cron_expression"}, {"cron_expression", "is_lunar"},
                             CronFields}}

ConfigUpdateRequests ==
    {u \in AnyUpdateRequests :
        /\ GivenFields(u.task_info) \subseteq u.fields_set
        /\ GivenCronFields(u.task_info) \subseteq u.cron_fields_set
        /\ u.task_info.cron_config = NoConfig => u.cron_fields_set = {}}
    \cup UpdateRequests

ConfigNext ==
    \/ \E fetched \in SUBSET StartupYears(now) : start(fetched)
    \/ \E task_info \in AnyInfos : create_new_task_structured(task_info)
    \/ \E task_id \in TaskIds : \E task_update \in ConfigUpdateRequests :
           update_existing_task(task_id, task_update)
    \/ \E task_id \in TaskIds : delete_existing_task(task_id)

ConfigSpec == Init /\ [][ConfigNext]_vars

-----------------------------------------------------------------------------
(* The maintenance job among the requests that change or delete the tasks  *)
(* it is about.  The service is running with an empty calendar and holds    *)
(* the tasks that creation stored: some armed, some awaiting the calendar.  *)

CreatedRow(task_info) ==
    LET r == calculate_initial_trigger_time(task_info, 0, {})
    IN  Row(r.status, r.trigger, task_info)

CreatedRows == {CreatedRow(task_info) : task_info \in Profiles}

SweepInit ==
    /\ now = 0
    /\ holiday_db = {}
    /\ calc_in = NoConfig
    /\ calc_out = Idle
    /\ ApplicationInit
    /\ store \in [TaskIds -> {row \in CreatedRows :
                                 ~(row.status = "FAILED"
                                   /\ row.next_trigger_time = NoTime)}]
    /\ jobs = ScheduleAll(tasks_to_schedule(store), <<>>, store)
    /\ running = [id \in TaskIds |-> <<>>]
    /\ requests = 0
    /\ scheduler = Started
    /\ event = NoEvent

SweepNext ==
    \/ \E task_id \in TaskIds : \E task_update \in UpdateRequests :
           update_existing_task(task_id, task_update)
    \/ \E task_id \in TaskIds : delete_existing_task(task_id)
    \/ \E year \in CalendarYears : trigger_calendar_update(year)
    \/ \E fetched \in BOOLEAN : daily_maintenance_job(fetched)

SweepSpec == SweepInit /\ [][SweepNext]_vars

-----------------------------------------------------------------------------
(* The calculator called twice for one rule: at creation, and, when that    *)
(* left the task PENDING_CALCULATION, again by the maintenance job with the *)
(* stored estimate and the calendar as it has become since.                 *)

RecalcInit ==
    /\ now \in 0..MaxNow
    /\ holiday_db \in Calendars
    /\ calc_in \in {RecurringInfo(c) : c \in {cfg \in CronConfigs : cfg.limit_days # {}}}
    /\ calc_out = Idle
    /\ ApplicationInit
    /\ SchedInit

(* task_scheduler.py lines 106-116, for the row creation stored *)
CallRecalculation(db) ==
    /\ calc_out.op = "initial"
    /\ calc_out.res.exc = "none"
    /\ calc_out.res.status = "PENDING_CALCULATION"
    /\ holiday_db \subseteq db
    /\ holiday_db' = db
    /\ calc_out' = [op |-> "recalculation",
                    estimate |-> calc_out.res.trigger,
                    res |-> Recalculation(Row(calc_out.res.status, calc_out.res.trigger,
                                              calc_in), now, db)]
    /\ UNCHANGED <<now, calc_in, sched_vars, batch_vars>>

RecalcNext ==
    \/ CallCalculateInitial
    \/ \E db \in Calendars : CallRecalculation(db)

RecalcSpec == RecalcInit /\ [][RecalcNext]_vars

-----------------------------------------------------------------------------
(* The WeChat front end: message batching (simple_dify_on_wechat/main.py)   *)
(* The WeChat client calls on_wechat_message_received_sync on its websocket *)
(* thread; every threading.Timer and every processing thread is a thread of *)
(* its own; stop() runs on the main thread and takes no lock.               *)

bot_wxid == "bot"

WechatMsgs ==
    [type : {"text", "video"}, is_group : BOOLEAN, sender_id : {"", "bot", "friend"},
     room_id : {"", "room"}, at_list : {{}, {"bot"}}]

(* message_processor.py lines 57-92 *)
should_process_wechat_message(wechat_msg) ==
    IF wechat_msg.sender_id = "" THEN FALSE
    ELSE IF wechat_msg.sender_id = bot_wxid THEN FALSE
    ELSE IF wechat_msg.type \notin {"text", "image", "voice"} THEN FALSE
    ELSE IF ~wechat_msg.is_group THEN TRUE
    ELSE bot_wxid \in wechat_msg.at_list

(* line 42 *)
wechat_contact_key(wechat_msg) ==
    IF wechat_msg.is_group THEN wechat_msg.room_id ELSE wechat_msg.sender_id

(* Timer.cancel(): stops a timer that has not fired yet, and does nothing   *)
(* to one whose function has been called                                    *)
cancel(ts, timer) ==
    IF timer # NoTimer /\ ts[timer].state = "started"
    THEN [ts EXCEPT ![timer].state = "cancelled"]
    ELSE ts

(* lines 36-66; the message is known by the number of its callback, and so  *)
(* is the timer made for it. The block under the contact's lock is one step *)
on_wechat_message_received_sync(wechat_msg) ==
    /\ stopping.pc # "closed"
    /\ received < MaxMessages
    /\ received' = received + 1
    /\ IF ~should_process_wechat_message(wechat_msg) \/ wechat_contact_key(wechat_msg) = ""
       THEN UNCHANGED <<message_buffers, user_timers, timers>>
       ELSE \E key \in {wechat_contact_key(wechat_msg)} : \E new_timer \in {received + 1} :
                /\ message_buffers' = [message_buffers EXCEPT ![key] = Append(@, new_timer)]
                /\ timers' = [cancel(timers, user_timers[key]) EXCEPT ![new_timer] = Timer(key)]
                /\ user_timers' = [user_timers EXCEPT ![key] = new_timer]
    /\ UNCHANGED <<threads, batches, stopping>>
    /\ UNCHANGED <<now, holiday_db, calc_vars, sched_vars>>

(* Timer.run with _trigger_process_batched_messages, lines 68-71: once the  *)
(* interval is over, a timer that was not cancelled starts a thread         *)
_trigger_process_batched_messages(timer) ==
    /\ timers[timer].state = "started"
    /\ timers[timer].remaining = 0
    /\ timers' = [timers EXCEPT ![timer].state = "fired"]
    /\ threads' = [threads EXCEPT ![timer] = "started"]
    /\ UNCHANGED <<message_buffers, user_timers, batches, received, stopping>>
    /\ UNCHANGED <<now, holiday_db, calc_vars, sched_vars>>

(* line 78 read without the pop: the buffer is left as it is *)
buffer_kept(buffers, key) == buffers

(* line 78: self.message_buffers.pop(key, []) *)
buffer_popped(buffers, key) == [buffers EXCEPT ![key] = <<>>]

(* lines 73-87: the block under the contact's lock; what follows works on   *)
(* messages_to_process alone                                                *)
_process_batched_messages_thread_target(thread) ==
    /\ threads[thread] = "started"
    /\ \E key \in {timers[thread].key} :
           /\ batches' = [batches EXCEPT ![thread] = message_buffers[key]]
           /\ message_buffers' = buffer_popped(message_buffers, key)
           /\ user_timers' = [user_timers EXCEPT ![key] = NoTimer]
    /\ threads' = [threads EXCEPT ![thread] = "done"]
    /\ UNCHANGED <<timers, received, stopping>>
    /\ UNCHANGED <<now, holiday_db, calc_vars, sched_vars>>

(* stop(), lines 218-223: the event is set and the keys are listed *)
stop ==
    /\ stopping.pc = "running"
    /\ stopping' = [pc |-> "cancelling",
                    keys |-> {key \in ContactKeys : user_timers[key] # NoTimer}]
    /\ UNCHANGED <<message_buffers, user_timers, timers, threads, batches, received>>
    /\ UNCHANGED <<now, holiday_db, calc_vars, sched_vars>>

(* stop(), lines 223-226: one round of the loop *)
stop_cancel(key) ==
    /\ stopping.pc = "cancelling"
    /\ key \in stopping.keys
    /\ timers' = cancel(timers, user_timers[key])
    /\ user_timers' = [user_timers EXCEPT ![key] = NoTimer]
    /\ stopping' = [stopping EXCEPT !.keys = @ \ {key}]
    /\ UNCHANGED <<message_buffers, threads, batches, received>>
    /\ UNCHANGED <<now, holiday_db, calc_vars, sched_vars>>

(* stop(), lines 229-230: the websocket is closed, no callback follows *)
stop_close_websocket ==
    /\ stopping.pc = "cancelling"
    /\ stopping.keys = {}
    /\ stopping' = [stopping EXCEPT !.pc = "closed"]
    /\ UNCHANGED <<message_buffers, user_timers, timers, threads, batches, received>>
    /\ UNCHANGED <<now, holiday_db, calc_vars, sched_vars>>

(* a second passes: every interval has a second less to run *)
BatchTick ==
    /\ \E m \in MessageIds : timers[m].remaining > 0
    /\ timers' = [m \in MessageIds |->
                     [timers[m] EXCEPT !.remaining = IF @ > 0 THEN @ - 1 ELSE 0]]
    /\ UNCHANGED <<message_buffers, user_timers, threads, batches, received, stopping>>
    /\ UNCHANGED <<now, holiday_db, calc_vars, sched_vars>>

BatchNext ==
    \/ \E wechat_msg \in WechatMsgs : on_wechat_message_received_sync(wechat_msg)
    \/ \E timer \in MessageIds : _trigger_process_batched_messages(timer)
    \/ \E thread \in MessageIds : _process_batched_messages_thread_target(thread)
    \/ stop
    \/ \E key \in ContactKeys : stop_cancel(key)
    \/ stop_close_websocket
    \/ BatchTick

BatchSpec == Init /\ [][BatchNext]_vars

(* The same with its scheduling assumed: time passes, and a thread that     *)
(* can run (a timer whose interval is over, a processing thread that was    *)
(* started) is run by the operating system.                                 *)
BatchLiveSpec ==
    /\ Init /\ [][BatchNext]_vars
    /\ WF_vars(BatchTick)
    /\ \A timer \in MessageIds : WF_vars(_trigger_process_batched_messages(timer))
    /\ \A thread \in MessageIds : WF_vars(_process_batched_messages_thread_target(thread))

-----------------------------------------------------------------------------
(* What the calculator is required to do, stated over the candidates        *)
(* rather than over the loop.                                               *)

CalcDone == calc_out.op # "none"
CronDone == CalcDone /\ calc_in.is_recurring /\ calc_in.cron_config # NoConfig
Rule == calc_in.cron_config
Res == calc_out.res

Satisfiable(expr) == expr.ok /\ expr.slots # {} /\ expr.dows # {}

(* the instant the search starts after: base, or just before validFrom *)
SearchStart ==
    IF Rule.start_time # NoTime /\ now < Rule.start_time THEN Rule.start_time - 1
    ELSE now

(* the first n instants after SearchStart that satisfy the expression, in order *)
RECURSIVE Candidates(_)
Candidates(n) ==
    IF n = 0 THEN <<>>
    ELSE LET before == Candidates(n - 1)
             last == IF n = 1 THEN SearchStart ELSE before[n - 1]
         IN  Append(before, get_next(Rule.cron_expression, last))

HasRow(t) == \E row \in holiday_db : row.date = DayOf(t)
RowOf(t) == CHOOSE row \in holiday_db : row.date = DayOf(t)
YearUnknown(t) == ~\E row \in holiday_db : row.year = YearOf(t)

InWindow(t) ==
    /\ Rule.start_time = NoTime \/ t >= Rule.start_time
    /\ Rule.end_time = NoTime \/ t <= Rule.end_time

(* the day classification satisfies at least one listed filter *)
FilterSatisfied(t) ==
    \/ "WORKDAY" \in Rule.limit_days /\ RowOf(t).day_type = 0
    \/ "HOLIDAY" \in Rule.limit_days /\ RowOf(t).day_type \in {1, 2}
    \/ "WEEKEND" \in Rule.limit_days /\ RowOf(t).day_type = 1 /\ RowOf(t).week_day \in {6, 7}
    \/ "WEEKDAY_ONLY" \in Rule.limit_days /\ isoweekday(t) \in 1..5

LunarMismatch(t) ==
    /\ Rule.is_lunar
    /\ DayOf(t) < LunarTableEnd
    /\ <<fromSolarDate(DayOf(t)).month, fromSolarDate(DayOf(t)).day>>
         # <<Rule.lunar_month, Rule.lunar_day>>

(* a candidate the search passes over *)
Skipped(t) ==
    /\ Rule.end_time = NoTime \/ t <= Rule.end_time
    /\ \/ Rule.start_time # NoTime /\ t < Rule.start_time
       \/ /\ Rule.limit_days = {} \/ HasRow(t)
          /\ \/ LunarMismatch(t)
             \/ /\ ~Rule.is_lunar \/ DayOf(t) < LunarTableEnd
                /\ Rule.limit_days # {}
                /\ ~FilterSatisfied(t)

(* C1: for a rule with a non-empty limit_days, when the search comes to a
   candidate inside the validity window whose year has no calendar rows, or
   whose date is missing from the rows of its year, the call returns that
   candidate with status PENDING_CALCULATION; it does not return FAILED and
   no exception leaves the call. *)
C1_MissingCalendarIsPendingCalculation ==
    (CronDone /\ Satisfiable(Rule.cron_expression) /\ Rule.limit_days # {}) =>
        LET c == Candidates(MaxAttempts)
        IN  \A k \in 1..MaxAttempts :
                ( /\ \A j \in 1..(k - 1) : Skipped(c[j])
                  /\ InWindow(c[k])
                  /\ ~HasRow(c[k]) )
                => /\ Res.exc = "none"
                   /\ Res.status = "PENDING_CALCULATION"
                   /\ Res.trigger = c[k]

(* C1 happens: a date missing from a year that has rows stops the search at
   its second candidate or later *)
C1_Witness ==
    /\ CronDone /\ Rule.limit_days # {}
    /\ Res.status = "PENDING_CALCULATION"
    /\ Res.draws >= 2
    /\ ~HasRow(Res.trigger) /\ ~YearUnknown(Res.trigger)

PlainRule ==
    /\ CronDone
    /\ ~Rule.is_lunar /\ Rule.limit_days = {}
    /\ Rule.start_time = NoTime /\ Rule.end_time = NoTime

(* C2 as claimed: for a valid expression (one that parses and that some
   instant satisfies) with no lunar rule, no filter and no window the call
   returns PENDING with the earliest instant >= base that satisfies the
   expression, base itself included. *)
C2_EarliestAtOrAfterBase ==
    (PlainRule /\ Satisfiable(Rule.cron_expression)) =>
        /\ Res.exc = "none" /\ Res.status = "PENDING"
        /\ Res.trigger >= now
        /\ CronMatches(Rule.cron_expression, Res.trigger)
        /\ \A u \in now..(Res.trigger - 1) : ~CronMatches(Rule.cron_expression, u)

(* C2 amended: for a valid expression that some instant satisfies, with no
   lunar rule, no filter and no window, the call returns PENDING with the
   earliest instant strictly after base that satisfies the expression. *)
C2_EarliestStrictlyAfterBase ==
    (PlainRule /\ Satisfiable(Rule.cron_expression)) =>
        /\ Res.exc = "none" /\ Res.status = "PENDING"
        /\ Res.trigger > now
        /\ CronMatches(Rule.cron_expression, Res.trigger)
        /\ \A u \in (now + 1)..(Res.trigger - 1) : ~CronMatches(Rule.cron_expression, u)

(* C2 happens: base itself satisfies the expression and a later instant is
   returned *)
C2_Witness ==
    /\ PlainRule /\ Satisfiable(Rule.cron_expression)
    /\ CronMatches(Rule.cron_expression, now)
    /\ Res.status = "PENDING" /\ Res.trigger > now

FilterOnlyRule ==
    /\ CronDone /\ Satisfiable(Rule.cron_expression)
    /\ Rule.limit_days # {} /\ ~Rule.is_lunar
    /\ Rule.start_time = NoTime /\ Rule.end_time = NoTime

(* the candidates c[1..k] all have calendar rows, the k-th satisfies the
   filter and none before it does *)
EarliestSatisfying(c, k) ==
    /\ \A j \in 1..k : HasRow(c[j])
    /\ FilterSatisfied(c[k])
    /\ \A j \in 1..(k - 1) : ~FilterSatisfied(c[j])

MaxCandidates == 40

(* C3: for a rule with a non-empty limit_days (no lunar rule, no window) and
   calendar rows for every date examined, the call returns PENDING with the
   earliest candidate after base whose day satisfies one of the listed
   filters, however many earlier candidates have to be skipped. *)
C3_EarliestDaySatisfyingFilter ==
    FilterOnlyRule =>
        LET c == Candidates(MaxCandidates)
        IN  \A k \in 1..MaxCandidates :
                EarliestSatisfying(c, k) =>
                    /\ Res.exc = "none" /\ Res.status = "PENDING"
                    /\ Res.trigger = c[k]

-----------------------------------------------------------------------------
(* The timers and the callbacks of one task *)

JobsOf(js, id) == SelectSeq(js, LAMBDA j : j.id = id)

(* C4: arming is an idempotent upsert.  Whatever add_or_update_job_in_scheduler *)
(* and remove_job_from_scheduler calls the handlers have made, no task id has   *)
(* more than one live timer; and right after a handler armed a task, whether a  *)
(* timer of that task was live before or not and whether the arguments are new  *)
(* or the same as before, the task has exactly one live timer, carrying the     *)
(* trigger instant just stored for it.                                          *)
C4_ArmIsIdempotentUpsert ==
    /\ \A id \in TaskIds : Len(JobsOf(jobs, id)) <= 1
    /\ \A id \in event.armed :
           /\ Len(JobsOf(jobs, id)) = 1
           /\ JobsOf(jobs, id)[1].run_date = store[id].next_trigger_time

(* C4 happens: a handler armed a task whose earlier timer, for another instant, *)
(* was still live                                                               *)
C4_Witness ==
    \E old \in event.replaced :
        /\ old.id \in event.armed
        /\ old.run_date # store[old.id].next_trigger_time
        /\ Len(JobsOf(jobs, old.id)) = 1

(* C5: no two execute_task_by_id callbacks of the same task are in progress at  *)
(* the same time, whatever the interleaving of timer fires, updates that re-arm *)
(* the task and maintenance runs, a callback suspended in content generation or *)
(* in the notification send included.                                           *)
C5_OneCallbackPerTask ==
    \A id \in TaskIds : Len(running[id]) <= 1

(* C5 happens: a timer of the task came due while its callback was suspended in *)
(* the send, and no second callback was started                                 *)
C5_Witness ==
    /\ event.op = "fire"
    /\ event.outcome = "max_instances"
    /\ Len(running[event.id]) = 1
    /\ running[event.id][1].pc = "send"

(* C6: last writer wins.  When update_existing_task went through while the      *)
(* task's callback was suspended in the notification send, the rest of the      *)
(* callback leaves the task's stored row and its live timer as the update left  *)
(* them.                                                                        *)
C6_SupersedingUpdateWins ==
    [][\A id \in TaskIds :
          (/\ event'.op = "execute"
           /\ event'.id = id
           /\ event'.superseded = "send"
           /\ store[id].exists)
          => /\ store'[id] = store[id]
             /\ JobsOf(jobs', id) = JobsOf(jobs, id)]_vars

(* C7: a failed firing does not end a recurrence.  When the callback of a       *)
(* recurring task has returned after a failed send, for want of a recipient or  *)
(* through its exception handler, and no update interfered, a task whose rule   *)
(* has a further occurrence is PENDING with that occurrence stored and armed.   *)
C7_FailedFiringKeepsRecurrence ==
    \A id \in TaskIds :
        (/\ event.op = "execute"
         /\ event.id = id
         /\ event.outcome \in {"send_failed", "no_recipient", "error"}
         /\ event.superseded = "none"
         /\ store[id].exists
         /\ store[id].is_recurring)
        => LET r == get_next_cron_run_time(store[id].task_info.cron_config, now,
                                           holiday_db, MaxAttempts)
           IN  r.status = "PENDING"
               => /\ store[id].status = "PENDING"
                  /\ store[id].next_trigger_time = r.trigger
                  /\ Len(JobsOf(jobs, id)) = 1
                  /\ JobsOf(jobs, id)[1].run_date = r.trigger

-----------------------------------------------------------------------------
(* C8: an absolute one-shot target at or before now gives now + 1 second,
   one after now is kept; the status is PENDING and the trigger is after
   now. *)
C8_OneShotNeverInThePast ==
    (CalcDone /\ ~calc_in.is_recurring /\ calc_in.one_time_specific_config # NoConfig) =>
        LET target == calc_in.one_time_specific_config.trigger_at
        IN  /\ Res.exc = "none" /\ Res.status = "PENDING"
            /\ target <= now => Res.trigger = now + 1
            /\ target > now => Res.trigger = target
            /\ Res.trigger > now

(* C8 happens: a target in the past was moved to now + 1 *)
C8_Witness ==
    /\ CalcDone /\ ~calc_in.is_recurring
    /\ calc_in.one_time_specific_config # NoConfig
    /\ calc_in.one_time_specific_config.trigger_at < now
    /\ Res.trigger = now + 1

(* C9: the search draws at most max_attempts candidates, and when the first
   max_attempts candidates are all passed over the call returns no trigger
   and FAILED. *)
C9_SearchIsBounded ==
    CronDone =>
        /\ Res.draws <= MaxAttempts
        /\ ( /\ Satisfiable(Rule.cron_expression)
             /\ LET c == Candidates(MaxAttempts)
                IN  \A k \in 1..MaxAttempts : Skipped(c[k]) )
           => Res = Ret(NoTime, "FAILED", MaxAttempts)

(* C9 happens: a daily lunar rule for a day its month never has runs out of
   attempts *)
C9_Witness ==
    /\ CronDone /\ Rule.is_lunar
    /\ Rule.lunar_month = 2 /\ Rule.lunar_day = LunarBig
    /\ Rule.cron_expression.slots = {Noon} /\ Rule.cron_expression.dows = AllDows
    /\ Res = Ret(NoTime, "FAILED", MaxAttempts)

(* C10: no exception leaves calculate_initial_trigger_time or
   get_next_cron_run_time, whatever the configuration and the calendar:
   every error is a returned status. *)
C10_CalculatorNeverRaises ==
    CalcDone => Res.exc = "none"

-----------------------------------------------------------------------------
(* Lunar rules and the validity window of a rule *)

LunarRule == CronDone /\ Satisfiable(Rule.cron_expression) /\ Rule.is_lunar

LunarMatches(t) ==
    /\ DayOf(t) < LunarTableEnd
    /\ fromSolarDate(DayOf(t)).month = Rule.lunar_month
    /\ fromSolarDate(DayOf(t)).day = Rule.lunar_day

(* the search comes to its k-th candidate, inside the window and with the
   calendar row a filter needs *)
Examined(c, k) ==
    /\ \A j \in 1..(k - 1) : Skipped(c[j])
    /\ InWindow(c[k])
    /\ Rule.limit_days = {} \/ HasRow(c[k])

(* C11: for a lunar rule, a trigger returned with PENDING lies on a day whose
   lunar conversion has the rule's lunar month and day; and a candidate whose
   lunar month or day differs is passed over: the search draws the next
   candidate, it does not end (in failure or otherwise) at the mismatch. *)
C11_LunarTriggerMatchesTarget ==
    LunarRule =>
        /\ (Res.status = "PENDING" /\ Res.trigger # NoTime) => LunarMatches(Res.trigger)
        /\ LET c == Candidates(MaxAttempts)
           IN  \A k \in 1..(MaxAttempts - 1) :
                   (Examined(c, k) /\ LunarMismatch(c[k]))
                   => Res.exc = "none" /\ Res.draws > k

(* C11 happens: days that do not match were passed over and a matching day
   returned *)
C11_Witness ==
    /\ LunarRule /\ Res.status = "PENDING" /\ Res.draws >= 2
    /\ LunarMatches(Res.trigger)
    /\ LunarMismatch(Candidates(1)[1])

(* C12: a lunar rule, with or without a day-type filter, asks the calendar
   for the year of each candidate: when the search comes to a candidate in
   the window whose year has no calendar rows, the call returns that candidate
   with PENDING_CALCULATION. *)
C12_LunarRuleNeedsCalendar ==
    LunarRule =>
        LET c == Candidates(MaxAttempts)
        IN  \A k \in 1..MaxAttempts :
                ( /\ \A j \in 1..(k - 1) : Skipped(c[j])
                  /\ InWindow(c[k])
                  /\ YearUnknown(c[k]) )
                => /\ Res.exc = "none"
                   /\ Res.status = "PENDING_CALCULATION"
                   /\ Res.trigger = c[k]

(* C13: a candidate whose solar-to-lunar conversion raises is passed over:
   the search goes on to the next candidate, no exception leaves the call and
   the call does not return FAILED at that candidate. *)
C13_ConversionErrorSkipsCandidate ==
    LunarRule =>
        LET c == Candidates(MaxAttempts)
        IN  \A k \in 1..(MaxAttempts - 1) :
                (Examined(c, k) /\ fromSolarDate_raises(DayOf(c[k])))
                => Res.exc = "none" /\ Res.draws > k

(* C14: with end_time set no returned trigger, PENDING or
   PENDING_CALCULATION, is later than end_time; and when the search comes to
   a candidate later than end_time it stops there with no trigger and
   COMPLETED. *)
C14_NoTriggerAfterEndTime ==
    (CronDone /\ Satisfiable(Rule.cron_expression) /\ Rule.end_time # NoTime) =>
        /\ Res.trigger # NoTime => Res.trigger <= Rule.end_time
        /\ LET c == Candidates(MaxAttempts)
           IN  \A k \in 1..MaxAttempts :
                   ((\A j \in 1..(k - 1) : Skipped(c[j])) /\ c[k] > Rule.end_time)
                   => Res = Ret(NoTime, "COMPLETED", k)

(* C14 happens: candidates up to end_time were passed over and the next one
   was past it *)
C14_Witness ==
    /\ CronDone /\ Rule.end_time # NoTime
    /\ Res.status = "COMPLETED" /\ Res.draws >= 2
    /\ Candidates(Res.draws)[Res.draws] > Rule.end_time
    /\ Candidates(Res.draws)[Res.draws - 1] <= Rule.end_time

(* C15: with start_time set no returned trigger is earlier than start_time;
   from a base before start_time the first candidate examined is the first
   instant at or after start_time that satisfies the expression, so that
   start_time itself is returned when it satisfies the rule. *)
C15_NoTriggerBeforeStartTime ==
    (CronDone /\ Satisfiable(Rule.cron_expression) /\ Rule.start_time # NoTime) =>
        /\ Res.trigger # NoTime => Res.trigger >= Rule.start_time
        /\ now < Rule.start_time =>
               /\ Candidates(1)[1] >= Rule.start_time
               /\ \A u \in Rule.start_time..(Candidates(1)[1] - 1) :
                      ~CronMatches(Rule.cron_expression, u)
               /\ ( /\ CronMatches(Rule.cron_expression, Rule.start_time)
                    /\ InWindow(Rule.start_time)
                    /\ ~Rule.is_lunar /\ Rule.limit_days = {} )
                  => Res = Ret(Rule.start_time, "PENDING", 1)

(* C15 happens: from a base before start_time the trigger is start_time *)
C15_Witness ==
    /\ CronDone /\ Rule.start_time # NoTime /\ now < Rule.start_time
    /\ Res.status = "PENDING" /\ Res.trigger = Rule.start_time

-----------------------------------------------------------------------------
(* Timers armed in the past, the maintenance sweep, startup *)

(* C16: a task armed for an instant already past is not rejected or dropped:
   the handler that armed it leaves it a live timer, and when the scheduler
   comes to a due timer it runs the callback, however long ago the trigger
   instant passed (during downtime before start() re-armed it, or otherwise);
   the run is never abandoned as missed. *)
C16_PastTriggerStillExecuted ==
    /\ \A id \in event.armed : Len(JobsOf(jobs, id)) = 1
    /\ event.op = "fire" => event.outcome # "missed"

(* the task's row after the sweep is one of the three the sweep may leave *)
SweptAs(id, r, st, js) ==
    \/ /\ st[id].status = "PENDING"
       /\ r.status = "PENDING"
       /\ st[id].next_trigger_time = r.trigger /\ r.trigger # NoTime
       /\ Len(JobsOf(js, id)) = 1
       /\ JobsOf(js, id)[1].run_date = r.trigger
    \/ /\ st[id].status = "PENDING_CALCULATION"
       /\ r.status = "PENDING_CALCULATION"
       /\ st[id].next_trigger_time = r.trigger /\ r.trigger # NoTime
       /\ JobsOf(js, id) = <<>>
    \/ /\ st[id].status = "FAILED"
       /\ st[id].next_trigger_time = NoTime
       /\ JobsOf(js, id) = <<>>

(* C17: a maintenance run recalculates every task stored as
   PENDING_CALCULATION and leaves it PENDING with the recalculated trigger
   stored and armed, or PENDING_CALCULATION with the new estimate stored and
   no live timer, or FAILED with no stored trigger and no live timer; it
   leaves no such task COMPLETED or RUNNING. *)
C17_SweepOutcomes ==
    [][event'.op = "maintenance" =>
          \A id \in get_tasks_for_recalculation(store) :
              SweptAs(id, Recalculation(store[id], now, holiday_db'), store', jobs')]_vars

(* the calendar holds every date a search within the clock's range examines *)
CalendarComplete == \A year \in ProviderYears : YearRows(year) \subseteq holiday_db

AwaitsCalendar(id) ==
    /\ store[id].exists
    /\ store[id].is_recurring
    /\ store[id].status = "PENDING_CALCULATION"

(* PENDING with a live timer, or a terminal status, or deleted *)
Resolved(id) ==
    \/ ~store[id].exists
    \/ store[id].status = "PENDING" /\ Len(JobsOf(jobs, id)) = 1
    \/ store[id].status \in {"COMPLETED", "FAILED"}

(* C18: a missing calendar is transient.  Once the calendar holds the dates
   the search examines, a recurring task stored as PENDING_CALCULATION does
   not stay so: with the maintenance job running again and again the task
   becomes PENDING with a live timer, or reaches COMPLETED or FAILED (or is
   deleted). *)
C18_PendingCalculationIsTransient ==
    \A id \in TaskIds : (AwaitsCalendar(id) /\ CalendarComplete) ~> Resolved(id)

(* C18 happens: a maintenance run armed a task that was waiting for the
   calendar *)
C18_Witness ==
    /\ event.op = "maintenance" /\ CalendarComplete
    /\ \E id \in event.armed :
           /\ store[id].task_info.cron_config.limit_days # {}
           /\ store[id].status = "PENDING"

-----------------------------------------------------------------------------
(* the table and the timers agree the way start() leaves them *)
Reconciled ==
    /\ scheduler.running
    /\ scheduler.daily_maintenance_job
    /\ \A id \in TaskIds :
           IF store[id].exists /\ store[id].status = "PENDING"
                               /\ store[id].next_trigger_time # NoTime
           THEN /\ Len(JobsOf(jobs, id)) = 1
                /\ JobsOf(jobs, id)[1].run_date = store[id].next_trigger_time
           ELSE JobsOf(jobs, id) = <<>>

(* C19: start() on a stopped scheduler leaves a timer for exactly the stored
   tasks that are PENDING with a trigger time, each at its stored trigger,
   and the daily maintenance job; a PENDING_CALCULATION task gets no timer.
   On a running scheduler start() does nothing. *)
C19_StartArmsExactlyThePending ==
    [][IF scheduler.running
       THEN ~(event'.op = "start" /\ event' # event)
       ELSE event'.op = "start" => Reconciled']_vars

(* C19 happens: a restart armed one task and left another for the sweep *)
C19_Witness ==
    /\ event.op = "start"
    /\ event.armed # {}
    /\ \E id \in TaskIds \ event.armed :
           /\ store[id].exists
           /\ store[id].status = "PENDING_CALCULATION"
           /\ JobsOf(jobs, id) = <<>>

-----------------------------------------------------------------------------
(* the timer callback of task id is at its first line *)
AtStart(id) == \E i \in DOMAIN running[id] : running[id][i].pc = "start"

(* C20: a fired callback executes the task only when its stored status is
   PENDING or RUNNING.  With any other stored status it skips: the row is
   left as it is (no RUNNING mark, same status and trigger), the callback
   returns without sending, and the task has no live timer afterwards. *)
C20_OnlyFireableIsExecuted ==
    [][\A id \in TaskIds :
          (event'.op = "execute" /\ event'.id = id /\ AtStart(id) /\ store[id].exists)
          => IF store[id].status \in {"PENDING", "RUNNING"}
             THEN event'.outcome # "skipped"
             ELSE /\ event'.outcome = "skipped"
                  /\ store' = store
                  /\ running'[id] = <<>>
                  /\ JobsOf(jobs', id) = <<>>]_vars

(* C20 happens: a callback found its task in a status that is not executed *)
C20_Witness ==
    /\ event.op = "execute"
    /\ event.outcome = "skipped"
    /\ store[event.id].exists
    /\ store[event.id].status \notin {"PENDING", "RUNNING"}

-----------------------------------------------------------------------------
(* the step is a step of the timer callback of task id *)
CallbackStep(id) == event'.op = "execute" /\ event'.id = id

(* ... and the callback returns in it *)
CallbackReturns(id) == CallbackStep(id) /\ Len(running'[id]) < Len(running[id])

(* C21: a firing goes PENDING -> RUNNING -> PENDING, PENDING_CALCULATION,
   COMPLETED or FAILED.  The callback has stored RUNNING when it hands over
   to content generation or to the send; when a callback that executed the
   task returns, the stored status is one of the four and not RUNNING; and
   for a recurring task that came through the send, it is the status the
   calculator returns for the rule with now as base. *)
C21_FiringLeavesRunning ==
    [][\A id \in TaskIds :
          /\ (CallbackStep(id) /\ AtStart(id)
                  /\ event'.outcome \in {"generating", "sending"})
             => /\ store[id].status \in {"PENDING", "RUNNING"}
                /\ store'[id].status = "RUNNING"
          /\ (CallbackReturns(id) /\ store'[id].exists /\ event'.outcome # "skipped")
             => store'[id].status \in
                    {"PENDING", "PENDING_CALCULATION", "COMPLETED", "FAILED"}
          /\ (CallbackReturns(id) /\ store'[id].exists
                  /\ event'.outcome \in {"sent", "send_failed"}
                  /\ store[id].is_recurring)
             => \A i \in DOMAIN running[id] :
                    (running[id][i].pc = "send"
                        /\ running[id][i].task_info.cron_config # NoConfig)
                    => store'[id].status =
                           NextOccurrence(running[id][i].task_info, now,
                                          holiday_db).status]_vars

(* C21 happens: a recurring task was sent and its callback returned with the
   task PENDING again *)
C21_Witness ==
    /\ event.op = "execute"
    /\ event.outcome \in {"sent", "send_failed"}
    /\ store[event.id].exists
    /\ store[event.id].is_recurring
    /\ store[event.id].status = "PENDING"
    /\ running[event.id] = <<>>

-----------------------------------------------------------------------------
(* C22: when the callback of a one-shot task that it executed returns, the
   stored status is COMPLETED if the notification was sent and FAILED on
   every other exit, and the task has no live timer. *)
C22_OneShotEndsDisarmed ==
    [][\A id \in TaskIds :
          (CallbackReturns(id) /\ store'[id].exists /\ ~store[id].is_recurring
              /\ event'.outcome # "skipped")
          => /\ store'[id].status =
                    IF event'.outcome = "sent" THEN "COMPLETED" ELSE "FAILED"
             /\ JobsOf(jobs', id) = <<>>]_vars

(* C22 happens: the callback of a one-shot task returned after the send *)
C22_Witness ==
    /\ event.op = "execute"
    /\ event.outcome = "sent"
    /\ store[event.id].exists
    /\ ~store[event.id].is_recurring
    /\ store[event.id].status = "COMPLETED"
    /\ running[event.id] = <<>>

-----------------------------------------------------------------------------
(* C23: a creation stores its task as PENDING, PENDING_CALCULATION or
   FAILED, never COMPLETED or RUNNING; the new task has a timer exactly when
   it is PENDING with a trigger time; and a creation whose calculation is
   FAILED without a trigger stores nothing and arms nothing. *)
C23_CreationStatuses ==
    [][event'.op = "create" =>
          IF event'.outcome = "created"
          THEN /\ store'[event'.id].status \in
                      {"PENDING", "PENDING_CALCULATION", "FAILED"}
               /\ ~(store'[event'.id].status = "FAILED"
                       /\ store'[event'.id].next_trigger_time = NoTime)
               /\ (JobsOf(jobs', event'.id) # <<>>) = Fireable(store'[event'.id])
          ELSE store' = store /\ jobs' = jobs]_vars

-----------------------------------------------------------------------------
Terminal(id) == store[id].exists /\ store[id].status \in {"COMPLETED", "FAILED"}

(* a callback or a maintenance run that starts on a terminal task leaves it *)
TerminalIsSkipped(id) ==
    /\ (CallbackStep(id) /\ AtStart(id))
       => /\ event'.outcome = "skipped"
          /\ store'[id] = store[id]
          /\ running'[id] = <<>>
          /\ id \notin event'.armed
          /\ Len(JobsOf(jobs', id)) <= Len(JobsOf(jobs, id))
    /\ event'.op \in {"maintenance", "start"}
       => /\ store'[id] = store[id]
          /\ id \notin event'.armed
          /\ JobsOf(jobs', id) = JobsOf(jobs, id)

(* C24: COMPLETED and FAILED are terminal for the scheduler.  A callback or
   a maintenance run that starts on such a task does not execute it, does
   not arm it and leaves its status and trigger; and only an update request
   (or the deletion) takes a task out of COMPLETED or FAILED. *)
C24_TerminalStatuses ==
    [][\A id \in TaskIds :
          Terminal(id)
          => /\ TerminalIsSkipped(id)
             /\ (store'[id].exists /\ store'[id].status \notin {"COMPLETED", "FAILED"})
                => event'.op = "update"]_vars

-----------------------------------------------------------------------------
(* the step installs or moves a timer of task id *)
Arms(id) ==
    \/ id \in event'.armed
    \/ JobsOf(jobs', id) # <<>> /\ JobsOf(jobs', id) # JobsOf(jobs, id)

(* the step takes the timer of task id away, other than by firing it or by
   stopping the scheduler *)
Disarms(id) ==
    /\ JobsOf(jobs, id) # <<>>
    /\ JobsOf(jobs', id) = <<>>
    /\ event'.op \notin {"fire", "shutdown"}

(* C25: the store is written before the scheduler call that reflects it.
   When a handler has armed a timer for an instant, the store holds the task
   as PENDING with that instant as its trigger time; when a handler has
   taken a timer away, the store no longer holds the task as PENDING with a
   trigger time. *)
C25_PersistBeforeSchedule ==
    [][\A id \in TaskIds :
          /\ Arms(id)
             => /\ store'[id].exists
                /\ store'[id].status = "PENDING"
                /\ \A i \in DOMAIN JobsOf(jobs', id) :
                       JobsOf(jobs', id)[i].run_date = store'[id].next_trigger_time
          /\ Disarms(id)
             => ~(/\ store'[id].exists
                  /\ store'[id].status = "PENDING"
                  /\ store'[id].next_trigger_time # NoTime)]_vars

(* C25 happens: an update moved the timer of a task to a new instant *)
C25_Witness ==
    /\ event.op \in {"update", "execute", "maintenance"}
    /\ \E id \in event.armed :
           /\ store[id].status = "PENDING"
           /\ Len(JobsOf(jobs, id)) = 1
           /\ JobsOf(jobs, id)[1].run_date = store[id].next_trigger_time

-----------------------------------------------------------------------------
(* C26: an arm call whose add_job fails is contained: the call returns, the
   task is left without a timer and its stored status is
   PENDING_CALCULATION, so that a later sweep picks it up. *)
C26_FailedArmLeavesPendingCalculation ==
    [][(event'.op = "arm" /\ event'.outcome = "add_job_failed")
       => /\ JobsOf(jobs', event'.id) = <<>>
          /\ store'[event'.id].status = "PENDING_CALCULATION"]_vars

-----------------------------------------------------------------------------
(* C27: disarming is safe and idempotent.  remove_job_from_scheduler takes
   the task's timer away when there is one and changes nothing when there
   is none; it returns in both cases, and a second disarm leaves the timers
   the first one left. *)
C27_DisarmIsIdempotent ==
    [][event'.op = "disarm"
       => /\ event'.outcome \in {"removed", "absent"}
          /\ JobsOf(jobs', event'.id) = <<>>
          /\ ~get_job(jobs, event'.id) => jobs' = jobs
          /\ remove_job_from_scheduler(jobs', event'.id) = jobs']_vars

(* C27 happens: a disarm of a task without a timer, beside another task's
   timer *)
C27_Witness ==
    /\ event.op = "disarm"
    /\ event.outcome = "absent"
    /\ jobs # <<>>

(* C28: arming and disarming touch the timer of their task only: the table
   of tasks is as it was, and so is the timer of every other task. *)
C28_SchedulerCallsFrame ==
    [][event'.op \in {"arm", "disarm"}
       => /\ store' = store
          /\ \A other \in TaskIds \ {event'.id} :
                 JobsOf(jobs', other) = JobsOf(jobs, other)]_vars

(* C28 happens: a task was armed while another task had a timer *)
C28_Witness ==
    /\ event.op = "arm"
    /\ event.outcome = "armed"
    /\ \E other \in TaskIds \ {event.id} : JobsOf(jobs, other) # <<>>

-----------------------------------------------------------------------------
(* C29: an expression croniter cannot parse is found out before any
   candidate is drawn: whatever the base, the validity window, the filters,
   the lunar settings and the calendar, the call returns no trigger and
   FAILED, never PENDING_CALCULATION or COMPLETED. *)
C29_MalformedExpressionFailsEagerly ==
    (CronDone /\ ~Rule.cron_expression.ok) => Res = Ret(NoTime, "FAILED", 0)

(* C29 happens: a malformed expression in a lunar rule with a filter and a
   validity window, no calendar at hand *)
C29_Witness ==
    /\ CronDone /\ ~Rule.cron_expression.ok
    /\ Rule.is_lunar /\ Rule.limit_days # {}
    /\ Rule.start_time # NoTime /\ Rule.end_time # NoTime
    /\ holiday_db = {}
    /\ Res.status = "FAILED" /\ Res.draws = 0

-----------------------------------------------------------------------------
(* C30: for a one-shot countdown task the initial calculation returns
   now + duration with PENDING when the duration string parses, and returns
   no trigger with FAILED, as a value and not as an exception, when the
   string is empty or does not parse. *)
C30_CountdownTrigger ==
    (/\ CalcDone /\ calc_out.op = "initial" /\ ~calc_in.is_recurring
     /\ calc_in.one_time_specific_config = NoConfig
     /\ calc_in.countdown_config # NoConfig)
    => LET p == parse_countdown_duration(calc_in.countdown_config.countdown_duration)
       IN  IF p.exc = "none"
           THEN Res = Ret(now + p.delta, "PENDING", 0)
           ELSE Res = Ret(NoTime, "FAILED", 0)

-----------------------------------------------------------------------------
(* The countdown grammar, stated over the text rather than over the         *)
(* matcher: a string is cut into four pieces, one per unit in the order     *)
(* d, h, m, s, each piece empty or a run of digits followed by its unit.    *)

ParseDone == calc_out.op = "parse"
Duration == calc_in.countdown_config.countdown_duration
Parsed == calc_out.res

RECURSIVE Pow10(_)
Pow10(n) == IF n = 0 THEN 1 ELSE 10 * Pow10(n - 1)

RECURSIVE PlaceValue(_, _, _)
PlaceValue(w, a, b) ==
    IF a > b THEN 0 ELSE DigitVal(w[a]) * Pow10(b - a) + PlaceValue(w, a + 1, b)

Piece(w, a, b, unit) ==
    \/ a > b
    \/ a < b /\ w[b] = unit /\ \A x \in a..(b - 1) : w[x] \in Digits

PieceValue(w, a, b) == IF a > b THEN 0 ELSE PlaceValue(w, a, b - 1)

Cuts(w) ==
    {c \in [1..3 -> 0..Len(w)] :
        /\ c[1] <= c[2] /\ c[2] <= c[3]
        /\ Piece(w, 1, c[1], "d") /\ Piece(w, c[1] + 1, c[2], "h")
        /\ Piece(w, c[2] + 1, c[3], "m") /\ Piece(w, c[3] + 1, Len(w), "s")}

OfTheForm(w) == w # <<>> /\ Cuts(w) # {}

FormValue(w) ==
    LET c == CHOOSE c \in Cuts(w) : TRUE
    IN  PieceValue(w, 1, c[1]) * TicksPerDay + PieceValue(w, c[1] + 1, c[2]) * TicksPerHour
        + PieceValue(w, c[2] + 1, c[3]) * TicksPerMinute + PieceValue(w, c[3] + 1, Len(w))

LowerCased(w) == [x \in 1..Len(w) |-> IF w[x] = "H" THEN "h" ELSE w[x]]

WithoutFinalNewline(w) ==
    IF w # <<>> /\ w[Len(w)] = "\n" THEN SubSeq(w, 1, Len(w) - 1) ELSE w

(* C31, as stated: a string of the form [<d>d][<h>h][<m>m][<s>s] with at    *)
(* least one unit parses to exactly d days + h hours + m minutes + s        *)
(* seconds, and every other string is refused with a ValueError.           *)
C31_ParsesExactlyTheForm ==
    ParseDone =>
        IF OfTheForm(Duration)
        THEN Parsed = [exc |-> "none", delta |-> FormValue(Duration)]
        ELSE Parsed.exc = "ValueError"

(* C31, amended: the same of the string once lower-cased and relieved of    *)
(* one final newline: such a string of the form parses to exactly d days +  *)
(* h hours + m minutes + s seconds ("0d" to the zero duration), and every   *)
(* other string, the empty one included, is refused with a ValueError.     *)
C31_ParsesTheFormCaseAndNewlineBlind ==
    ParseDone =>
        LET w == LowerCased(WithoutFinalNewline(Duration))
        IN  IF OfTheForm(w)
            THEN Parsed = [exc |-> "none", delta |-> FormValue(w)]
            ELSE Parsed.exc = "ValueError"

C31_Witness ==
    /\ ParseDone
    /\ Duration = <<"1", "d", "2", "H", "1", "m", "2", "s">>
    /\ Parsed = [exc |-> "none",
                 delta |-> TicksPerDay + 2 * TicksPerHour + TicksPerMinute + 2]

-----------------------------------------------------------------------------
(* The schedule configuration of a stored task *)

Exclusive(info) ==
    LET rule == info.cron_config # NoConfig
        absolute == info.one_time_specific_config # NoConfig
        countdown == info.countdown_config # NoConfig
    IN  IF info.is_recurring THEN rule /\ ~absolute /\ ~countdown
        ELSE ~rule /\ (absolute # countdown)

StoredConfigsExclusive ==
    \A id \in TaskIds : store[id].exists =>
        /\ Exclusive(store[id].task_info)
        /\ store[id].is_recurring = store[id].task_info.is_recurring

(* the config an update asks for: the given fields over the stored ones *)
AskedFor(stored, u) ==
    IF u.task_info = NoConfig THEN stored
    ELSE [k \in ScheduleFields |->
             IF k \in u.fields_set THEN u.task_info[k] ELSE stored[k]]

(* C32: every stored task is recurring with a recurrence rule and neither   *)
(* one-shot spec, or not recurring with no rule and exactly one of absolute *)
(* target and countdown; and a create or update whose config, merged with   *)
(* the stored one for an update, is not so is rejected and leaves the table *)
(* and the timers as they were.                                             *)
C32_ScheduleConfigExclusive ==
    /\ [](StoredConfigsExclusive)
    /\ [][/\ \A task_info \in AnyInfos :
                 create_new_task_structured(task_info) /\ ~Exclusive(task_info)
                 => event'.outcome = "rejected" /\ UNCHANGED <<store, jobs>>
          /\ \A task_id \in TaskIds : \A task_update \in ConfigUpdateRequests :
                 (/\ update_existing_task(task_id, task_update)
                  /\ ~Exclusive(AskedFor(store[task_id].task_info, task_update)))
                 => event'.outcome = "rejected" /\ UNCHANGED <<store, jobs>>]_vars

C32_Witness ==
    /\ event.op = "update" /\ event.outcome = "rejected"
    /\ \E id \in TaskIds :
          /\ store[id].exists /\ store[id].is_recurring
          /\ store[id].status = "PENDING" /\ JobsOf(jobs, id) # <<>>

-----------------------------------------------------------------------------
(* C33: for a rule that is not lunar and whose limit_days is exactly        *)
(* WEEKDAY_ONLY, get_next_cron_run_time gives the same trigger and status   *)
(* whatever the calendar table holds, also when it holds no year at all:    *)
(* the earliest candidate whose ISO weekday is in 1..5, with PENDING.       *)
C33_WeekdayOnlyIgnoresCalendar ==
    (/\ calc_out.op = "next"
     /\ ~Rule.is_lunar /\ Rule.limit_days = {"WEEKDAY_ONLY"}
     /\ Satisfiable(Rule.cron_expression))
    => /\ \A db \in Calendars :
              LET other == get_next_cron_run_time(Rule, now, db, MaxAttempts)
              IN  other.trigger = Res.trigger /\ other.status = Res.status
       /\ LET c == Candidates(MaxAttempts)
              weekdays == {i \in 1..MaxAttempts :
                              InWindow(c[i]) /\ isoweekday(c[i]) \in 1..5}
          IN  weekdays # {} =>
                  Res.status = "PENDING" /\ Res.trigger = c[Min(weekdays)]

-----------------------------------------------------------------------------
(* the maintenance job has dealt with a task of its list *)
Swept(id) ==
    /\ store[id].exists
    /\ store[id].status = "PENDING" =>
           /\ Len(JobsOf(jobs, id)) = 1
           /\ JobsOf(jobs, id)[1].run_date = store[id].next_trigger_time
    /\ store[id].status = "PENDING_CALCULATION" =>
           store[id].next_trigger_time # NoTime /\ ~CalendarComplete
    /\ store[id].status \in {"COMPLETED", "FAILED"} =>
           store[id].next_trigger_time = NoTime /\ JobsOf(jobs, id) = <<>>

(* C34: a task that was deleted, or whose status a request changed, before  *)
(* the maintenance job comes to it is left alone by the job: its row is not *)
(* written, no timer of it is armed or removed; and the job still deals     *)
(* with every task that is PENDING_CALCULATION.                             *)
C34_SweepToleratesChanges ==
    [][event'.op = "maintenance" =>
          \A id \in TaskIds :
              IF store[id].exists /\ store[id].status = "PENDING_CALCULATION"
              THEN Swept(id)'
              ELSE /\ store'[id] = store[id]
                   /\ JobsOf(jobs', id) = JobsOf(jobs, id)
                   /\ id \notin event'.armed]_vars

C34_Witness ==
    /\ event.op = "maintenance"
    /\ \E changed \in TaskIds : \E other \in event.armed :
           /\ store[changed].exists
           /\ store[changed].status = "COMPLETED"
           /\ store[changed].next_trigger_time # NoTime
           /\ store[changed].task_info.cron_config # NoConfig
           /\ store[changed].task_info.cron_config.limit_days # {}
           /\ other # changed
           /\ store[other].task_info.cron_config.limit_days # {}

-----------------------------------------------------------------------------
(* the candidate t passes every test of the rule against the calendar *)
Admissible(t) ==
    /\ InWindow(t)
    /\ HasRow(t)
    /\ FilterSatisfied(t)
    /\ Rule.is_lunar => DayOf(t) < LunarTableEnd /\ ~LunarMismatch(t)

(* C35: the maintenance job recomputes from the stored estimate less one    *)
(* minute, so the estimate itself is examined again: when the calendar now  *)
(* holds its date and the estimate satisfies every filter of the rule, the  *)
(* recomputed trigger is the stored estimate, with PENDING.                 *)
C35_RecalculationKeepsEstimate ==
    (/\ calc_out.op = "recalculation"
     /\ Satisfiable(Rule.cron_expression)
     /\ Admissible(calc_out.estimate))
    => Res.status = "PENDING" /\ Res.trigger = calc_out.estimate

-----------------------------------------------------------------------------
(* the candidate t lies in the validity window, matches the lunar target    *)
(* and satisfies the day-type filter                                         *)
PassesAll(t) ==
    /\ InWindow(t)
    /\ Rule.limit_days # {} => HasRow(t) /\ FilterSatisfied(t)
    /\ Rule.is_lunar => DayOf(t) < LunarTableEnd /\ ~LunarMismatch(t)

TwoYears == 2 * DaysPerYear * TicksPerDay

(* C36: FAILED by exhaustion means that nothing can satisfy the rule.  For  *)
(* every valid expression, however often it fires, when some candidate      *)
(* within two years after base passes the window, the lunar target and the  *)
(* day-type filter, the calendar holding the dates examined, the call       *)
(* returns the earliest such candidate with PENDING, not FAILED.            *)
C36_ExhaustionMeansUnsatisfiable ==
    (CronDone /\ Satisfiable(Rule.cron_expression)) =>
        LET c == Candidates(MaxCandidates)
        IN  \A k \in 1..MaxCandidates :
                (/\ c[k] <= SearchStart + TwoYears
                 /\ PassesAll(c[k])
                 /\ \A j \in 1..(k - 1) : ~PassesAll(c[j])
                 /\ \A j \in 1..k : Rule.limit_days # {} => HasRow(c[j]))
                => /\ Res.exc = "none" /\ Res.status = "PENDING"
                   /\ Res.trigger = c[k]

-----------------------------------------------------------------------------
(* C37: the timers agree with the table.  Whenever no callback of a task is *)
(* in progress, a live timer of the task means that the task is stored      *)
(* PENDING with the timer's instant as its next_trigger_time; a task stored *)
(* PENDING_CALCULATION, COMPLETED or FAILED, or deleted, has no live timer. *)
C37_TimersAgreeWithStore ==
    \A id \in TaskIds :
        (running[id] = <<>> /\ JobsOf(jobs, id) # <<>>)
        => /\ store[id].exists
           /\ store[id].status = "PENDING"
           /\ \A i \in DOMAIN JobsOf(jobs, id) :
                  JobsOf(jobs, id)[i].run_date = store[id].next_trigger_time

-----------------------------------------------------------------------------
(* a step of a callback of the task that finds the task's row gone *)
CallbackOfAbsent(id) ==
    /\ event'.op = "execute" /\ event'.id = id
    /\ ~store[id].exists

(* C38: a deleted task is never executed or armed again.  When the delete   *)
(* request returns the task has no live timer; a callback that finds no row *)
(* for its task starts no notification send, leaves the task without timer  *)
(* and arms nothing; and a callback that resumes after the task was deleted *)
(* creates neither a timer nor a row for it.                                *)
C38_DeletedTaskIsDead ==
    [][\A id \in TaskIds :
          /\ (event'.op = "delete" /\ event'.id = id) => JobsOf(jobs', id) = <<>>
          /\ CallbackOfAbsent(id) =>
                 /\ event'.outcome # "sending"
                 /\ event'.armed = {}
          /\ store[id] = DeletedRow =>
                 /\ store'[id] = DeletedRow
                 /\ JobsOf(jobs', id) = <<>>]_vars

-----------------------------------------------------------------------------
(* C39: batching is exactly-once *)

(* a timer was made for message m: the callback took it into a buffer *)
Accepted(m) == timers[m].state # "none"

Occurrences(seq, m) == Cardinality({i \in DOMAIN seq : seq[i] = m})

BuffersWith(m) == {key \in ContactKeys : Occurrences(message_buffers[key], m) > 0}
BatchesWith(m) == {thread \in MessageIds : Occurrences(batches[thread], m) > 0}

Handed(m) == BatchesWith(m) # {}

(* an accepted message is in one place, once: the buffer of its contact or  *)
(* the batch of one processing thread of its contact; any other message is  *)
(* nowhere                                                                  *)
InOnePlace(m) ==
    IF Accepted(m)
    THEN /\ Cardinality(BuffersWith(m)) + Cardinality(BatchesWith(m)) = 1
         /\ \A key \in BuffersWith(m) :
                key = timers[m].key /\ Occurrences(message_buffers[key], m) = 1
         /\ \A thread \in BatchesWith(m) :
                /\ timers[thread].key = timers[m].key
                /\ Occurrences(batches[thread], m) = 1
    ELSE BuffersWith(m) = {} /\ BatchesWith(m) = {}

(* C39: every message on_wechat_message_received_sync accepts is placed in  *)
(* its contact's buffer and is in exactly one place at any time (the buffer *)
(* or one batch, never two batches, never nowhere), and, unless the         *)
(* application is stopped first, it is eventually handed to batch           *)
(* processing, under every interleaving of arrivals, timer fires and        *)
(* processing threads.                                                      *)
C39_ExactlyOnce ==
    /\ [](\A m \in MessageIds : InOnePlace(m))
    /\ \A m \in MessageIds :
           Accepted(m) ~> (Handed(m) \/ stopping.pc # "running")

(* two messages of one contact went out in one batch, the second having     *)
(* arrived after the first one's timer fired, and the thread of the second  *)
(* one's timer found nothing left                                           *)
C39_Witness ==
    /\ stopping.pc = "running"
    /\ \E first, second \in MessageIds :
           /\ first < second
           /\ threads[first] = "done" /\ threads[second] = "done"
           /\ batches[first] = <<first, second>>
           /\ batches[second] = <<>>

-----------------------------------------------------------------------------
(* C40: one debounce timer per contact *)

(* the timers of a contact that were started and have neither fired nor     *)
(* been cancelled                                                           *)
LiveTimers(key) ==
    {m \in MessageIds : timers[m].state = "started" /\ timers[m].key = key}

OneLiveTimer(key) ==
    /\ Cardinality(LiveTimers(key)) <= 1
    /\ \A m \in LiveTimers(key) : user_timers[key] = m

(* a thread that takes messages takes them when the interval of the timer   *)
(* made for the latest of them, the contact's most recent message, is over  *)
TakenAfterDelay(thread) ==
    threads[thread] = "started" /\ threads'[thread] = "done" /\ batches'[thread] # <<>>
        => timers[batches'[thread][Len(batches'[thread])]].remaining = 0

(* C40: every contact has at any time at most one started, not yet fired,   *)
(* not cancelled batch timer, and user_timers[key] is that timer; and a     *)
(* contact's buffered messages are taken for processing only when           *)
(* MESSAGE_BATCH_DELAY_SECONDS have passed since the contact's most recent  *)
(* message, also when a message arrives between a timer firing and its      *)
(* thread taking the lock.                                                  *)
C40_OneTimerPerContact ==
    /\ [](\A key \in ContactKeys : OneLiveTimer(key))
    /\ [][\A thread \in MessageIds : TakenAfterDelay(thread)]_vars

====
